---------------------------- MODULE Spec2Model ----------------------------
(***************************************************************************)
(* Model of the multi-camera acquisition pipeline of sariful/ai-camera:    *)
(*   - CameraThread (src/camera_thread.py): one worker thread per camera,  *)
(*     its capture handle, its one-slot frame store guarded by a lock,     *)
(*     the reconnect logic of _capture_loop, start() and stop();           *)
(*   - the main thread: start_all_cameras, the presentation loop           *)
(*     (DisplayManager.collect_frames -> get_latest_frame) and             *)
(*     stop_all_cameras (src/utils.py);                                    *)
(*   - DisplayManager.combine_frames (src/display_manager.py), a pure      *)
(*     function of the frame list, modelled on frame geometry.             *)
(* Threads interleave at the granularity of the statements that touch      *)
(* shared state; every blocking call (open, read, sleep, join) is a step   *)
(* of its own.                                                             *)
(***************************************************************************)
EXTENDS Integers, Sequences, FiniteSets, TLC

(***************************************************************************)
(* Bounds of the model.                                                    *)
(***************************************************************************)
MaxFrames == 2       \* successful cap.read() calls per camera
NumBufs == 3         \* buffer identities per camera (slot, reader copy, fresh)
MaxLayout == 6       \* longest frame list handed to combine_frames
MaxAfterStop == 3    \* cap of the afterStop counter
MaxSources == 5      \* most camera threads of a presentation cycle
TicksPerMs == 10     \* resolution of time.time() in the pacing model
MaxWorkMs == 45      \* longest annotation, compositing and display
MaxBackMs == 3       \* largest step back of the wall clock during a cycle
MaxAlertTime == 12   \* seconds the alert model follows
MaxCalls == 3        \* frames the detector looks at in the alert model
MaxDetFrames == 3        \* frames of one apply_ai_detection call
MaxExtra == 2            \* results of the detector beyond the cap
MaxSleeps == 12          \* sleeps between connection attempts that are followed
MaxDescriptors == 3      \* camera descriptors of a configuration

(***************************************************************************)
(* Program constants.                                                      *)
(***************************************************************************)
max_reconnect_attempts == 5     \* CAMERA_SETTINGS["max_reconnect_attempts"]
DYNAMIC_FRAME_WIDTH == 400              \* CAMERA_SETTINGS["frame_width"], fallback size
DYNAMIC_FRAME_HEIGHT == 280             \* CAMERA_SETTINGS["frame_height"], fallback size
LEGACY_WIDTH == 640             \* camera.py: frame size of the legacy loop
LEGACY_HEIGHT == 360
target_fps == 25                \* DISPLAY_SETTINGS["target_fps"]
min_delay == 1                  \* APP_CONSTANTS["min_delay"], milliseconds
legacy_target_fps == 25         \* camera.py: 1.0 / 25.0
legacy_min_delay == 1           \* camera.py: max(1, ...)
alert_cooldown == 3             \* AI_DETECTION_SETTINGS["alert_cooldown"], seconds
main_cooldown == 5              \* main.py: now - last_sent > 5
max_detections_per_frame == 10
corner_size == 50        \* frame[0:50, 0:50]
placeholder_text_left == 100
sound_alert_camera == 2  \* "camera 3 (index 2)"
reconnect_delay == 1         \* seconds
extended_retry_delay == 5
base_delay == 1              \* connect_camera, seconds
max_delay == 30

\* the camera threads of the model: camera_id 0 and camera_id 1
Cameras == {0, 1}
BufIds == 1 .. NumBufs
NoBuf == 0                       \* None
EmptyCell == [serial |-> 0, marked |-> FALSE]

VARIABLES
  cap,                 \* self.cap: None, or a VideoCapture that is opened,
                       \* closed (isOpened() false, not released) or released
  frame,               \* self.frame: a buffer identity, NoBuf for None
  timestamp,           \* self.timestamp
  running,             \* self.running
  thread,              \* self.thread: "None" or "started"
  lock,                \* self.lock: "free", or its holder
  reconnect_attempts,  \* self.reconnect_attempts
  heap,                \* contents of the numpy buffers of each camera
  wpc,                 \* position of the worker thread in _capture_loop
  wframe,              \* the worker's local `frame` (serial of the frame read)
  nread,               \* frames the camera has delivered so far
  clock,               \* time.time() readings of each worker so far; a reading
                       \* is named by its ordinal
  mpc,                 \* position of the main thread
  mi,                  \* index of the camera the main thread is working on
  held,                \* buffer returned by the last get_latest_frame
  heldTs,              \* timestamp returned by the last get_latest_frame
  stopped,             \* stop() has returned for the camera
  published,           \* history: samples whose publish completed
  lastPub,             \* history: the sample of the last completed publish
  heldSerial,          \* history: content of the copy when it was handed out
  afterStop,           \* history: blocking calls the worker started after
                       \* running was cleared
  layoutIn,            \* argument of combine_frames: the frame list
  layoutOut,           \* result of combine_frames
  cyLoop,              \* the presentation loop that runs the cycle
  cySlots,             \* the slots at the cycle: per camera_id + 1 the
                       \* timestamp of the stored sample, 0 for frame None
  cyPc,                \* position in the cycle
  cyFrames,            \* the local list `frames`
  cyTimestamps,        \* the local list `timestamps`
  cySkew,              \* max_time_diff
  cyOut,               \* the local `combined`
  gvLoop,              \* the presentation loop whose pacing is followed
  gvPc,                \* position in the cycle, for its timing
  gvNow,               \* time.time(), in ticks
  gvStart,             \* the local start_time
  gvSpent,             \* history: time the cycle's work has taken so far
  gvDelay,             \* the delay handed to cv2.waitKey, in milliseconds
  alPath,              \* the alert path that is followed
  alPc,                \* position of the thread that detects
  alNow,               \* time.time(), in seconds
  alLast,              \* self.last_sound_time / last_sent
  alCur,               \* the local current_time / now
  alBusy,              \* transport work in progress (save, play)
  alCalls,             \* history: the frames the detector has looked at:
                       \* the time, and whether there were detections
  alSent,              \* history: the times of the dispatched alerts
  alFailed,            \* history: the transports that have failed so far
  dtDetector,          \* self.human_detector is set and detection enabled
  dtFrames,            \* argument of apply_ai_detection: `frames`
  dtDark,              \* the frames whose top-left corner is all black
  dtPc,                \* position in apply_ai_detection
  dtI,                 \* frames the loop of line 155 has been through
  dtProcessed,         \* the local list `processed_frames`
  dtLast,              \* history: what was done with the last frame
  dtInvoked,           \* history: frames detect_humans was called with
  dtAlerted,           \* history: frames _play_alert_sound was called for
  dtRaised,            \* history: frames whose try block raised
  rcWorker,            \* the worker whose reconnection is followed
  rcPc,                \* "connected", or "disconnected": about to open
  rcAttempts,          \* self.reconnect_attempts / connect_camera's attempt
  rcStreak,            \* history: failed attempts since the last success
  rcSleeps,            \* history: the sleeps between attempts so far
  cfInput,             \* config["cameras"]: the descriptors, by their shape
  cfPc,                \* position of main.py's start-up
  cfI,                 \* descriptors _parse_config has been through
  cfCameras,           \* self.cameras of the CameraManager being built
  cfError,             \* the exception that left CameraManager(...)
  cfManager,           \* the module-level name camera_manager
  cfThreads,            \* the local list `threads`, by the cameras' positions
  sd,                   \* the end of camera.py: the main thread and the threads it stops
  ft,                   \* main.py: one camera's feature flags at work
  hd,                   \* ai_detector.py: a HumanDetector and its last call
  cn,                   \* main.py: a call of connect_camera and its caller
  hs                   \* camera_thread.py: the capture handles of one CameraThread

camVars == <<cap, frame, timestamp, running, thread, lock, reconnect_attempts,
             heap, wpc, wframe, nread, clock, mpc, mi, held, heldTs, stopped,
             published, lastPub, heldSerial, afterStop>>
layoutVars == <<layoutIn, layoutOut>>
cycleVars == <<cyLoop, cySlots, cyPc, cyFrames, cyTimestamps, cySkew, cyOut>>
\* what the camera threads never touch
paceVars == <<gvLoop, gvPc, gvNow, gvStart, gvSpent, gvDelay>>
alertVars == <<alPath, alPc, alNow, alLast, alCur, alBusy, alCalls, alSent,
               alFailed>>
detVars == <<dtDetector, dtFrames, dtDark, dtPc, dtI, dtProcessed, dtLast,
             dtInvoked, dtAlerted, dtRaised>>
rcVars == <<rcWorker, rcPc, rcAttempts, rcStreak, rcSleeps>>
cfVars == <<cfInput, cfPc, cfI, cfCameras, cfError, cfManager, cfThreads>>
sdVars == <<sd>>
ftVars == <<ft>>
hdVars == <<hd>>
cnVars == <<cn>>
hsVars == <<hs>>
auxVars == <<layoutVars, cycleVars, paceVars, alertVars, detVars, rcVars, cfVars, sdVars, ftVars, hdVars, cnVars, hsVars>>
\* what the actions of one specification leave alone: the variables of all
\* the others
notLayout == <<camVars, cycleVars, paceVars, alertVars, detVars, rcVars, cfVars, sdVars, ftVars, hdVars, cnVars, hsVars>>
notCycle == <<camVars, layoutVars, paceVars, alertVars, detVars, rcVars, cfVars, sdVars, ftVars, hdVars, cnVars, hsVars>>
notPace == <<camVars, layoutVars, cycleVars, alertVars, detVars, rcVars, cfVars, sdVars, ftVars, hdVars, cnVars, hsVars>>
notAlert == <<camVars, layoutVars, cycleVars, paceVars, detVars, rcVars, cfVars, sdVars, ftVars, hdVars, cnVars, hsVars>>
notDetect == <<camVars, layoutVars, cycleVars, paceVars, alertVars, rcVars, cfVars, sdVars, ftVars, hdVars, cnVars, hsVars>>
notReconnect == <<camVars, layoutVars, cycleVars, paceVars, alertVars, detVars, cfVars, sdVars, ftVars, hdVars, cnVars, hsVars>>
notConfig == <<camVars, layoutVars, cycleVars, paceVars, alertVars, detVars, rcVars, sdVars, ftVars, hdVars, cnVars, hsVars>>
notShutdown == <<camVars, layoutVars, cycleVars, paceVars, alertVars, detVars, rcVars, cfVars, ftVars, hdVars, cnVars, hsVars>>
notFeatures == <<camVars, layoutVars, cycleVars, paceVars, alertVars, detVars, rcVars, cfVars, sdVars, hdVars, cnVars, hsVars>>
notDetector == <<camVars, layoutVars, cycleVars, paceVars, alertVars, detVars, rcVars, cfVars, sdVars, ftVars, cnVars, hsVars>>
notConnect == <<camVars, layoutVars, cycleVars, paceVars, alertVars, detVars, rcVars, cfVars, sdVars, ftVars, hdVars, hsVars>>
notHandles == <<camVars, layoutVars, cycleVars, paceVars, alertVars, detVars, rcVars, cfVars, sdVars, ftVars, hdVars, cnVars>>
vars == <<cap, frame, timestamp, running, thread, lock, reconnect_attempts,
          heap, wpc, wframe, nread, clock, mpc, mi, held, heldTs, stopped,
          published, lastPub, heldSerial, afterStop,
          layoutIn, layoutOut,
          cyLoop, cySlots, cyPc, cyFrames, cyTimestamps, cySkew, cyOut,
          gvLoop, gvPc, gvNow, gvStart, gvSpent, gvDelay,
          alPath, alPc, alNow, alLast, alCur, alBusy, alCalls, alSent,
          alFailed,
          dtDetector, dtFrames, dtDark, dtPc, dtI, dtProcessed, dtLast,
          dtInvoked, dtAlerted, dtRaised,
          rcWorker, rcPc, rcAttempts, rcStreak, rcSleeps,
          cfInput, cfPc, cfI, cfCameras, cfError, cfManager, cfThreads,
          sd,
          ft,
          hd,
          cn,
          hs>>

Absent == [serial |-> 0, ts |-> 0]   \* frame None, timestamp 0

(***************************************************************************)
(* CameraThread.__init__: the state after construction.                    *)
(***************************************************************************)
CamInit ==
  /\ cap = [c \in Cameras |-> "None"]
  /\ frame = [c \in Cameras |-> NoBuf]
  /\ timestamp = [c \in Cameras |-> 0]
  /\ running = [c \in Cameras |-> FALSE]
  /\ thread = [c \in Cameras |-> "None"]
  /\ lock = [c \in Cameras |-> "free"]
  /\ reconnect_attempts = [c \in Cameras |-> 0]
  /\ heap = [c \in Cameras |-> [b \in BufIds |-> EmptyCell]]
  /\ wpc = [c \in Cameras |-> "idle"]
  /\ wframe = [c \in Cameras |-> 0]
  /\ nread = [c \in Cameras |-> 0]
  /\ clock = [c \in Cameras |-> 0]
  /\ mpc = "start"
  /\ mi = 0
  /\ held = [c \in Cameras |-> NoBuf]
  /\ heldTs = [c \in Cameras |-> 0]
  /\ stopped = [c \in Cameras |-> FALSE]
  /\ published = [c \in Cameras |-> {Absent}]
  /\ lastPub = [c \in Cameras |-> Absent]
  /\ heldSerial = [c \in Cameras |-> 0]
  /\ afterStop = [c \in Cameras |-> 0]

(***************************************************************************)
(* Buffers.  Every numpy array of a camera has an identity; copy() takes   *)
(* the least identity no live reference uses.  Cells no reference reaches  *)
(* are cleared, so that garbage does not distinguish states.               *)
(***************************************************************************)
Live(c) == {frame[c], held[c]} \ {NoBuf}

Fresh(c) == CHOOSE b \in BufIds \ Live(c) : \A b2 \in BufIds \ Live(c) : b <= b2

Collect(h, live) == [b \in BufIds |-> IF b \in live THEN h[b] ELSE EmptyCell]

(***************************************************************************)
(* cv2.VideoCapture                                                        *)
(***************************************************************************)
IsOpened(c) == cap[c] = "opened"

\* open_stream: releases the previous handle when there is one, creates a
\* new one, and returns isOpened() of the new handle.
OpenStream(ok) == IF ok THEN "opened" ELSE "closed"

\* cap.release() under `if self.cap:`
Release(h) == IF h = "None" THEN "None" ELSE "released"

\* line 81: not self.cap or not self.cap.isOpened()
NeedsReconnect(c) == cap[c] = "None" \/ ~IsOpened(c)

\* a blocking call that starts while running is false counts for afterStop
Blocked(c) == IF running[c] \/ afterStop[c] >= MaxAfterStop THEN 0 ELSE 1

(***************************************************************************)
(* CameraThread._capture_loop, one action per statement group.             *)
(***************************************************************************)
\* line 80: while self.running
LoopRunsNoCheck(c) == TRUE
LoopRuns(c) == running[c]

\* lines 80-82, 90: the loop test and the choice of the branch
LoopHead(c) ==
  /\ wpc[c] = "loop"
  /\ wpc' = [wpc EXCEPT ![c] =
       IF ~LoopRuns(c) THEN "done"
       ELSE IF NeedsReconnect(c)
            THEN IF reconnect_attempts[c] < max_reconnect_attempts
                 THEN "open" ELSE "backoff"
            ELSE "read"]
  /\ afterStop' = [afterStop EXCEPT ![c] =
       IF LoopRuns(c) THEN @ + Blocked(c) ELSE @]
  /\ UNCHANGED auxVars
  /\ UNCHANGED <<cap, frame, timestamp, running, thread, lock,
                 reconnect_attempts, heap, wframe, nread, clock, mpc, mi,
                 held, heldTs, stopped, published, lastPub, heldSerial>>

\* line 85 / line 87: reconnect_attempts after an open attempt
AttemptsAfterOpenSkip(n, ok) == IF ok THEN 0 ELSE n + 2
AttemptsAfterOpen(n, ok) == IF ok THEN 0 ELSE n + 1

\* an attribute that the cameras share
ClassAttribute(f, c, v) == [x \in DOMAIN f |-> v]

\* self.<attribute> = v: cap, reconnect_attempts and the others are made
\* per object in __init__
InstanceAttribute(f, c, v) == [f EXCEPT ![c] = v]

\* lines 84-89: open_stream() in the loop; on failure the worker goes to
\* sleep reconnect_delay, on success it falls through to the read
Reconnect(c) ==
  /\ wpc[c] = "open"
  /\ \E ok \in BOOLEAN :
       /\ cap' = InstanceAttribute(cap, c, OpenStream(ok))
       /\ reconnect_attempts' = InstanceAttribute(reconnect_attempts, c,
            AttemptsAfterOpen(reconnect_attempts[c], ok))
       /\ wpc' = [wpc EXCEPT ![c] = IF ok THEN "read" ELSE "sleep_reconnect"]
  /\ afterStop' = [afterStop EXCEPT ![c] = @ + Blocked(c)]
  /\ UNCHANGED auxVars
  /\ UNCHANGED <<frame, timestamp, running, thread, lock, heap, wframe,
                 nread, clock, mpc, mi, held, heldTs, stopped, published,
                 lastPub, heldSerial>>

\* lines 88-89: time.sleep(reconnect_delay) returns; continue
SleepReconnect(c) ==
  /\ wpc[c] = "sleep_reconnect"
  /\ wpc' = [wpc EXCEPT ![c] = "loop"]
  /\ UNCHANGED auxVars
  /\ UNCHANGED <<cap, frame, timestamp, running, thread, lock,
                 reconnect_attempts, heap, wframe, nread, clock, mpc, mi,
                 held, heldTs, stopped, published, lastPub, heldSerial,
                 afterStop>>

\* line 93: reconnect_attempts after the extended sleep
AttemptsAfterBackoffKeep(n) == n
AttemptsAfterBackoff(n) == 0

\* lines 92-94: time.sleep(extended_retry_delay) returns; reset; continue
Backoff(c) ==
  /\ wpc[c] = "backoff"
  /\ reconnect_attempts' = [reconnect_attempts EXCEPT ![c] =
       AttemptsAfterBackoff(@)]
  /\ wpc' = [wpc EXCEPT ![c] = "loop"]
  /\ UNCHANGED auxVars
  /\ UNCHANGED <<cap, frame, timestamp, running, thread, lock, heap, wframe,
                 nread, clock, mpc, mi, held, heldTs, stopped, published,
                 lastPub, heldSerial, afterStop>>

\* lines 96-99, success: ret is true, frame is not None, and cv2.resize
\* returns the resized frame
ReadOk(c) ==
  /\ wpc[c] = "read"
  /\ nread[c] < MaxFrames
  /\ nread' = [nread EXCEPT ![c] = @ + 1]
  /\ wframe' = [wframe EXCEPT ![c] = nread[c] + 1]
  /\ wpc' = [wpc EXCEPT ![c] = "acquire"]
  /\ UNCHANGED auxVars
  /\ UNCHANGED <<cap, frame, timestamp, running, thread, lock,
                 reconnect_attempts, heap, clock, mpc, mi, held, heldTs,
                 stopped, published, lastPub, heldSerial, afterStop>>

\* lines 96-99, the read succeeds and cv2.resize raises: nothing in the loop
\* catches the exception, the thread ends
ResizeRaises(c) ==
  /\ wpc[c] = "read"
  /\ nread[c] < MaxFrames
  /\ nread' = [nread EXCEPT ![c] = @ + 1]
  /\ wpc' = [wpc EXCEPT ![c] = "crashed"]
  /\ UNCHANGED auxVars
  /\ UNCHANGED <<cap, frame, timestamp, running, thread, lock,
                 reconnect_attempts, heap, wframe, clock, mpc, mi, held,
                 heldTs, stopped, published, lastPub, heldSerial, afterStop>>

\* lines 96, 105-107, failure: the handle is left as it is; whether it still
\* reports isOpened() afterwards is up to the capture library
ReadFail(c) ==
  /\ wpc[c] = "read"
  /\ \E h \in {"opened", "closed"} : cap' = [cap EXCEPT ![c] = h]
  /\ wpc' = [wpc EXCEPT ![c] = "sleep_readfail"]
  /\ afterStop' = [afterStop EXCEPT ![c] = @ + Blocked(c)]
  /\ UNCHANGED auxVars
  /\ UNCHANGED <<frame, timestamp, running, thread, lock, reconnect_attempts,
                 heap, wframe, nread, clock, mpc, mi, held, heldTs, stopped,
                 published, lastPub, heldSerial>>

\* line 107: time.sleep(0.1) returns
SleepReadFail(c) ==
  /\ wpc[c] = "sleep_readfail"
  /\ wpc' = [wpc EXCEPT ![c] = "loop"]
  /\ UNCHANGED auxVars
  /\ UNCHANGED <<cap, frame, timestamp, running, thread, lock,
                 reconnect_attempts, heap, wframe, nread, clock, mpc, mi,
                 held, heldTs, stopped, published, lastPub, heldSerial,
                 afterStop>>

\* threading.Lock.acquire: the lock can be taken when nobody holds it
NoLock(c) == TRUE
LockFree(c) == lock[c] = "free"

\* line 101: with self.lock
WorkerAcquire(c) ==
  /\ wpc[c] = "acquire"
  /\ LockFree(c)
  /\ lock' = [lock EXCEPT ![c] = "worker"]
  /\ wpc' = [wpc EXCEPT ![c] = "pub_frame"]
  /\ UNCHANGED auxVars
  /\ UNCHANGED <<cap, frame, timestamp, running, thread, reconnect_attempts,
                 heap, wframe, nread, clock, mpc, mi, held, heldTs, stopped,
                 published, lastPub, heldSerial, afterStop>>

\* line 102: the slot after self.frame = frame.copy()
SlotAfterPublishFirstWins(old, new) == IF old = NoBuf THEN new ELSE old
SlotAfterPublish(old, new) == new

\* line 102: self.frame = frame.copy()
PubFrame(c) ==
  /\ wpc[c] = "pub_frame"
  /\ LET new == SlotAfterPublish(frame[c], Fresh(c))
         h == [heap[c] EXCEPT ![Fresh(c)] =
                 [serial |-> wframe[c], marked |-> FALSE]]
     IN /\ frame' = [frame EXCEPT ![c] = new]
        /\ heap' = [heap EXCEPT ![c] = Collect(h, {new, held[c]})]
  /\ wpc' = [wpc EXCEPT ![c] = "pub_ts"]
  /\ UNCHANGED auxVars
  /\ UNCHANGED <<cap, timestamp, running, thread, lock, reconnect_attempts,
                 wframe, nread, clock, mpc, mi, held, heldTs, stopped,
                 published, lastPub, heldSerial, afterStop>>

\* a with block that does not give the lock back
LockAfterPublishHeld(holder) == holder

\* the end of the with block of lines 101-104: the lock is released
LockAfterPublish(holder) == "free"

\* lines 103-104 and the end of the with block: the timestamp, the counter
\* reset and the release of the lock; the publish of the sample is complete
PubTimestamp(c) ==
  /\ wpc[c] = "pub_ts"
  /\ clock' = [clock EXCEPT ![c] = @ + 1]
  /\ timestamp' = [timestamp EXCEPT ![c] = clock[c] + 1]
  /\ reconnect_attempts' = [reconnect_attempts EXCEPT ![c] = 0]
  /\ lock' = [lock EXCEPT ![c] = LockAfterPublish(@)]
  /\ wpc' = [wpc EXCEPT ![c] = "loop"]
  /\ LET s == [serial |-> wframe[c], ts |-> clock[c] + 1]
     IN /\ published' = [published EXCEPT ![c] = @ \cup {s}]
        /\ lastPub' = [lastPub EXCEPT ![c] = s]
  /\ UNCHANGED auxVars
  /\ UNCHANGED <<cap, frame, running, thread, heap, wframe, nread, mpc, mi,
                 held, heldTs, stopped, heldSerial, afterStop>>

Worker(c) ==
  \/ LoopHead(c)
  \/ Reconnect(c)
  \/ SleepReconnect(c)
  \/ Backoff(c)
  \/ ReadOk(c)
  \/ ReadFail(c)
  \/ SleepReadFail(c)
  \/ ResizeRaises(c)
  \/ WorkerAcquire(c)
  \/ PubFrame(c)
  \/ PubTimestamp(c)

(***************************************************************************)
(* The main thread.                                                        *)
(***************************************************************************)
LastCamera == Cardinality(Cameras) - 1

\* CameraThread.start, called for each camera in turn by start_all_cameras:
\* the thread is created only when the first open succeeds
StartCamera ==
  /\ mpc = "start"
  /\ \E ok \in BOOLEAN :
       /\ cap' = [cap EXCEPT ![mi] = OpenStream(ok)]
       /\ running' = [running EXCEPT ![mi] = IF ok THEN TRUE ELSE @]
       /\ thread' = [thread EXCEPT ![mi] = IF ok THEN "started" ELSE @]
       /\ wpc' = [wpc EXCEPT ![mi] = IF ok THEN "loop" ELSE @]
  /\ IF mi < LastCamera
       THEN /\ mi' = mi + 1
            /\ mpc' = "start"
       ELSE /\ mi' = 0
            /\ mpc' = "r_acquire"
  /\ UNCHANGED auxVars
  /\ UNCHANGED <<frame, timestamp, lock, reconnect_attempts, heap, wframe,
                 nread, clock, held, heldTs, stopped, published, lastPub,
                 heldSerial, afterStop>>

\* get_latest_frame, line 116: with self.lock
ReaderAcquire ==
  /\ mpc = "r_acquire"
  /\ LockFree(mi)
  /\ lock' = [lock EXCEPT ![mi] = "reader"]
  /\ mpc' = "r_frame"
  /\ UNCHANGED auxVars
  /\ UNCHANGED <<cap, frame, timestamp, running, thread, reconnect_attempts,
                 heap, wpc, wframe, nread, clock, mi, held, heldTs, stopped,
                 published, lastPub, heldSerial, afterStop>>

\* line 117: the buffer get_latest_frame returns for a slot that holds one
ReaderBufferAlias(c) == frame[c]
ReaderBuffer(c) == Fresh(c)

\* line 117, first element: self.frame.copy() if self.frame is not None
\* else None
ReaderFrame ==
  /\ mpc = "r_frame"
  /\ IF frame[mi] = NoBuf
       THEN /\ held' = [held EXCEPT ![mi] = NoBuf]
            /\ heldSerial' = [heldSerial EXCEPT ![mi] = 0]
            /\ heap' = heap
       ELSE LET b == ReaderBuffer(mi)
            IN /\ held' = [held EXCEPT ![mi] = b]
               /\ heldSerial' = [heldSerial EXCEPT ![mi] =
                    heap[mi][frame[mi]].serial]
               /\ heap' = [heap EXCEPT ![mi][b] = heap[mi][frame[mi]]]
  /\ mpc' = "r_ts"
  /\ UNCHANGED auxVars
  /\ UNCHANGED <<cap, frame, timestamp, running, thread, lock,
                 reconnect_attempts, wpc, wframe, nread, clock, mi, heldTs,
                 stopped, published, lastPub, afterStop>>

\* line 117, second element, and the end of the with block; then the next
\* camera of collect_frames, or the rest of the cycle
ReaderTimestamp ==
  /\ mpc = "r_ts"
  /\ heldTs' = [heldTs EXCEPT ![mi] = timestamp[mi]]
  /\ lock' = [lock EXCEPT ![mi] = "free"]
  /\ IF mi < LastCamera
       THEN /\ mi' = mi + 1
            /\ mpc' = "r_acquire"
       ELSE /\ mi' = 0
            /\ mpc' = "display"
  /\ UNCHANGED auxVars
  /\ UNCHANGED <<cap, frame, timestamp, running, thread, reconnect_attempts,
                 heap, wpc, wframe, nread, clock, held, stopped, published,
                 lastPub, heldSerial, afterStop>>

\* the caller draws into a buffer it was handed (cv2.putText and
\* cv2.rectangle write in place)
ClientWrite(c) ==
  /\ mpc = "display"
  /\ held[c] # NoBuf
  /\ ~heap[c][held[c]].marked
  /\ heap' = [heap EXCEPT ![c][held[c]].marked = TRUE]
  /\ UNCHANGED auxVars
  /\ UNCHANGED <<cap, frame, timestamp, running, thread, lock,
                 reconnect_attempts, wpc, wframe, nread, clock, mpc, mi, held,
                 heldTs, stopped, published, lastPub, heldSerial, afterStop>>

\* the frames of a cycle are dropped when the cycle ends
DropHeld ==
  /\ held' = [c \in Cameras |-> NoBuf]
  /\ heldTs' = [c \in Cameras |-> 0]
  /\ heldSerial' = [c \in Cameras |-> 0]
  /\ heap' = [c \in Cameras |-> Collect(heap[c], {frame[c]})]

\* process_frame_cycle returns True: the next cycle begins
NextCycle ==
  /\ mpc = "display"
  /\ DropHeld
  /\ mpc' = "r_acquire"
  /\ mi' = 0
  /\ UNCHANGED auxVars
  /\ UNCHANGED <<cap, frame, timestamp, running, thread, lock,
                 reconnect_attempts, wpc, wframe, nread, clock, stopped,
                 published, lastPub, afterStop>>

\* the quit key: the loop ends and stop_all_cameras begins
Quit ==
  /\ mpc = "display"
  /\ DropHeld
  /\ mpc' = "stop_flag"
  /\ mi' = 0
  /\ UNCHANGED auxVars
  /\ UNCHANGED <<cap, frame, timestamp, running, thread, lock,
                 reconnect_attempts, wpc, wframe, nread, clock, stopped,
                 published, lastPub, afterStop>>

\* CameraThread.stop, line 69: self.running = False
StopFlag ==
  /\ mpc = "stop_flag"
  /\ running' = [running EXCEPT ![mi] = FALSE]
  /\ mpc' = "stop_join"
  /\ UNCHANGED auxVars
  /\ UNCHANGED <<cap, frame, timestamp, thread, lock, reconnect_attempts,
                 heap, wpc, wframe, nread, clock, mi, held, heldTs, stopped,
                 published, lastPub, heldSerial, afterStop>>

Terminated(c) == wpc[c] \in {"idle", "done", "crashed"}

\* lines 70-71: if self.thread: self.thread.join() returns when there is no
\* thread or the thread has ended
JoinNoWait(c) == TRUE
JoinOnFlag(c) == ~running[c]
JoinReturns(c) == thread[c] = "None" \/ Terminated(c)

StopJoin ==
  /\ mpc = "stop_join"
  /\ JoinReturns(mi)
  /\ mpc' = "stop_release"
  /\ UNCHANGED auxVars
  /\ UNCHANGED <<cap, frame, timestamp, running, thread, lock,
                 reconnect_attempts, heap, wpc, wframe, nread, clock, mi,
                 held, heldTs, stopped, published, lastPub, heldSerial,
                 afterStop>>

\* lines 72-73: if self.cap: self.cap.release(); stop() returns, and
\* stop_all_cameras goes on to the next camera
StopRelease ==
  /\ mpc = "stop_release"
  /\ cap' = [cap EXCEPT ![mi] = Release(@)]
  /\ stopped' = [stopped EXCEPT ![mi] = TRUE]
  /\ IF mi < LastCamera
       THEN /\ mi' = mi + 1
            /\ mpc' = "stop_flag"
       ELSE /\ mi' = mi
            /\ mpc' = "stopped"
  /\ UNCHANGED auxVars
  /\ UNCHANGED <<frame, timestamp, running, thread, lock, reconnect_attempts,
                 heap, wpc, wframe, nread, clock, held, heldTs, published,
                 lastPub, heldSerial, afterStop>>

Main ==
  \/ StartCamera
  \/ ReaderAcquire
  \/ ReaderFrame
  \/ ReaderTimestamp
  \/ (\E c \in Cameras : ClientWrite(c))
  \/ NextCycle
  \/ Quit
  \/ StopFlag
  \/ StopJoin
  \/ StopRelease

(***************************************************************************)
(* DisplayManager.combine_frames on frame geometry.  An image is its width *)
(* and height and the tiles it is made of: which frame of the list lies    *)
(* where.  Zero-filled padding has no tile.  A numpy call that raises      *)
(* makes the whole call raise.                                             *)
(***************************************************************************)
Pending == [res |-> "pending", w |-> 0, h |-> 0, tiles |-> {}]
ReturnsNone == [res |-> "None", w |-> 0, h |-> 0, tiles |-> {}]
Raises == [res |-> "raise", w |-> 0, h |-> 0, tiles |-> {}]

\* no combine_frames call and no presentation cycle in progress
LayoutIdle ==
  /\ layoutIn = <<>>
  /\ layoutOut = Pending

AlertIdle ==
  /\ alPath = "none"
  /\ alPc = "off"
  /\ alNow = 0
  /\ alLast = 0
  /\ alCur = 0
  /\ alBusy = 0
  /\ alCalls = <<>>
  /\ alSent = <<>>
  /\ alFailed = 0

PaceIdle ==
  /\ gvLoop = "none"
  /\ gvPc = "off"
  /\ gvNow = 0
  /\ gvStart = 0
  /\ gvSpent = 0
  /\ gvDelay = 0

CycleIdle ==
  /\ cyLoop = "none"
  /\ cySlots = <<>>
  /\ cyPc = "off"
  /\ cyFrames = <<>>
  /\ cyTimestamps = <<>>
  /\ cySkew = 0
  /\ cyOut = Pending

\* no frame handled yet
NotHandled ==
  [i |-> 0, invoked |-> FALSE, results |-> <<>>, seen |-> <<>>,
   boxes |-> <<>>]

DetectIdle ==
  /\ dtDetector = FALSE
  /\ dtFrames = <<>>
  /\ dtDark = {}
  /\ dtPc = "off"
  /\ dtI = 0
  /\ dtProcessed = <<>>
  /\ dtLast = NotHandled
  /\ dtInvoked = {}
  /\ dtAlerted = {}
  /\ dtRaised = {}

ReconnectIdle ==
  /\ rcWorker = "none"
  /\ rcPc = "off"
  /\ rcAttempts = 0
  /\ rcStreak = 0
  /\ rcSleeps = <<>>

ConfigIdle ==
  /\ cfInput = <<>>
  /\ cfPc = "off"
  /\ cfI = 0
  /\ cfCameras = <<>>
  /\ cfError = "none"
  /\ cfManager = "unbound"
  /\ cfThreads = <<>>

\* camera.py is not running
SdOff ==
  [pc |-> "off", exit |-> "none", i |-> 0, thread |-> <<>>, running |-> <<>>,
   cap |-> <<>>, stopped |-> {}, windows |-> "none"]

ShutdownIdle == sd = SdOff

FtOff ==
  [pc |-> "off", features |-> <<>>, frames |-> 0, now |-> 0, cur |-> 0,
   last_sent |-> 0, evaluated |-> 0, dispatched |-> 0, imwrite |-> 0,
   play |-> 0, message |-> 0]
FeaturesIdle == ft = FtOff

NoStats ==
  [total_detections |-> 0, total_frames_processed |-> 0,
   avg_inference_time |-> 0, last_detection_count |-> 0]
HdOff ==
  [pc |-> "off", model_loaded |-> FALSE, calls |-> 0, detection_stats |-> NoStats,
   boxes |-> <<>>, outcome |-> "none", returned |-> <<>>]
DetectorIdle == hd = HdOff

CnOff ==
  [pc |-> "off", caller |-> "none", max_attempts |-> 0, attempt |-> 0,
   failed |-> 0, result |-> "pending", cap |-> "None", calls |-> 0,
   reads |-> 0, read_on |-> "none"]
ConnectIdle == cn = CnOff

HsOff ==
  [mpc |-> "off", wpc |-> "none", running |-> FALSE, thread |-> "None",
   cap |-> 0, opened |-> FALSE, reconnect_attempts |-> 0, created |-> 0,
   unreleased |-> {}]
HandlesIdle == hs = HsOff

\* frames[i], 1-based here, of shape (f.h, f.w, 3)
FrameImage(i, f) ==
  [res |-> "image", w |-> f.w, h |-> f.h,
   tiles |-> {[src |-> i, x |-> 0, y |-> 0, w |-> f.w, h |-> f.h]}]

\* np.zeros((h, w, 3), dtype=np.uint8)
Zeros(h, w) == [res |-> "image", w |-> w, h |-> h, tiles |-> {}]

Shift(t, dx, dy) == [t EXCEPT !.x = @ + dx, !.y = @ + dy]

RECURSIVE HStack(_)
\* np.hstack: the arrays side by side; they must agree in height
HStack(imgs) ==
  IF Len(imgs) = 0 THEN Raises
  ELSE IF Len(imgs) = 1 THEN imgs[1]
  ELSE LET a == imgs[1]
           rest == HStack(Tail(imgs))
       IN IF a.res # "image" \/ rest.res # "image" \/ a.h # rest.h
            THEN Raises
            ELSE [res |-> "image", w |-> a.w + rest.w, h |-> a.h,
                  tiles |-> a.tiles \cup {Shift(t, a.w, 0) : t \in rest.tiles}]

RECURSIVE VStack(_)
\* np.vstack: the arrays on top of each other; they must agree in width
VStack(imgs) ==
  IF Len(imgs) = 0 THEN Raises
  ELSE IF Len(imgs) = 1 THEN imgs[1]
  ELSE LET a == imgs[1]
           rest == VStack(Tail(imgs))
       IN IF a.res # "image" \/ rest.res # "image" \/ a.w # rest.w
            THEN Raises
            ELSE [res |-> "image", w |-> a.w, h |-> a.h + rest.h,
                  tiles |-> a.tiles \cup {Shift(t, 0, a.h) : t \in rest.tiles}]

Images(frames) == [i \in 1 .. Len(frames) |-> FrameImage(i, frames[i])]

\* lines 248-258 with the whole shortfall on the right
SecondRowSingleRightOnly(first_row, img, frame_height) ==
  LET padding_width == first_row.w - img.w
  IN IF padding_width > 0
       THEN HStack(<<img, Zeros(frame_height, padding_width)>>)
       ELSE img

\* lines 248-258: one camera in the second row, centred
SecondRowSingle(first_row, img, frame_height) ==
  LET padding_width == first_row.w - img.w
      left_padding == padding_width \div 2
      right_padding == padding_width - left_padding
  IN IF padding_width > 0
       THEN HStack(<<Zeros(frame_height, left_padding), img,
                     Zeros(frame_height, right_padding)>>)
       ELSE img

\* lines 259-266: several cameras in the second row, padded on the right
SecondRowMany(first_row, imgs, frame_height) ==
  LET second_row == HStack(imgs)
      width_diff == first_row.w - second_row.w
  IN IF second_row.res # "image" THEN Raises
     ELSE IF width_diff > 0
       THEN HStack(<<second_row, Zeros(frame_height, width_diff)>>)
       ELSE second_row

combine_frames(frames) ==
  LET num_cameras == Len(frames)
      imgs == Images(frames)
  IN IF num_cameras = 0 THEN ReturnsNone
     ELSE IF num_cameras = 1 THEN imgs[1]
     ELSE IF num_cameras = 2 THEN HStack(imgs)
     ELSE LET frame_height == frames[1].h
              cameras_first_row == 2
              cameras_second_row == num_cameras - cameras_first_row
              first_row == HStack(SubSeq(imgs, 1, cameras_first_row))
              second_row ==
                IF cameras_second_row = 1
                  THEN SecondRowSingle(first_row, imgs[cameras_first_row + 1],
                                       frame_height)
                  ELSE SecondRowMany(first_row,
                         SubSeq(imgs, cameras_first_row + 1, num_cameras),
                         frame_height)
          IN IF first_row.res # "image" THEN Raises
             ELSE VStack(<<first_row, second_row>>)

\* frame sizes of the model; 400 x 280 is the fallback size of config.py
FrameWidths == {1, 3, 4, 400}
FrameHeights == {2, 3, 280}

\* the frame lists of the layout specification: equal-sized frames
FrameLists ==
  {[i \in 1 .. n |-> [w |-> fw, h |-> fh]] :
     n \in 0 .. MaxLayout, fw \in FrameWidths, fh \in FrameHeights}

\* one call of combine_frames
Compose ==
  /\ layoutOut = Pending
  /\ layoutOut' = combine_frames(layoutIn)
  /\ UNCHANGED layoutIn
  /\ UNCHANGED notLayout

LayoutInit ==
  /\ CamInit
  /\ HandlesIdle
  /\ ConnectIdle
  /\ DetectorIdle
  /\ FeaturesIdle
  /\ ShutdownIdle
  /\ ConfigIdle
  /\ ReconnectIdle
  /\ DetectIdle
  /\ AlertIdle
  /\ CycleIdle
  /\ PaceIdle
  /\ layoutIn \in FrameLists
  /\ layoutOut = Pending

LayoutNext == Compose

\* combine_frames applied to every frame list of the bounds
SpecLayout == LayoutInit /\ [][LayoutNext]_vars

(***************************************************************************)
(* One presentation cycle on a snapshot of the slots:                      *)
(* DisplayManager.process_frame_cycle, and the loop body of camera.py (the *)
(* earlier revision of the same loop).  Frames are their kind, their       *)
(* source and their geometry; time is left to the pacing specification.    *)
(***************************************************************************)
Loops == {"display_manager", "camera_py"}

\* slot timestamps of the cycle model; 0 is the slot that never got a sample
SlotTimes == {0, 1, 2}

\* create_placeholder_frame: np.zeros((frame_height, frame_width, 3)) with
\* the text "Camera <camera_id + 1> Disconnected"
create_placeholder_frame(camera_id) ==
  [kind |-> "placeholder", src |-> camera_id, drawn |-> FALSE,
   w |-> DYNAMIC_FRAME_WIDTH, h |-> DYNAMIC_FRAME_HEIGHT]

\* a frame a worker published: the camera's picture, resized to the
\* configured size before the publish (camera_thread.py line 99)
SampleFrame(camera_id) ==
  [kind |-> "sample", src |-> camera_id, drawn |-> FALSE,
   w |-> DYNAMIC_FRAME_WIDTH, h |-> DYNAMIC_FRAME_HEIGHT]

\* camera.py line 115: np.zeros((360, 640, 3)) with the same text
LegacyPlaceholder(camera_id) ==
  [kind |-> "placeholder", src |-> camera_id, drawn |-> FALSE,
   w |-> LEGACY_WIDTH, h |-> LEGACY_HEIGHT]

\* camera.py line 72: cv2.resize(frame, (640, 360))
LegacySample(camera_id) ==
  [kind |-> "sample", src |-> camera_id, drawn |-> FALSE,
   w |-> LEGACY_WIDTH, h |-> LEGACY_HEIGHT]

\* collect_frames: `frames`, one entry per camera thread in list order
collect_frames(slots) ==
  [i \in 1 .. Len(slots) |->
     IF slots[i] # 0 THEN SampleFrame(i - 1)
                     ELSE create_placeholder_frame(i - 1)]

\* collect_frames: `timestamps`
collect_timestamps(slots) ==
  [i \in 1 .. Len(slots) |-> IF slots[i] # 0 THEN slots[i] ELSE 0]

\* camera.py lines 108-119: the same collection with the legacy frame size
LegacyFrames(slots) ==
  [i \in 1 .. Len(slots) |->
     IF slots[i] # 0 THEN LegacySample(i - 1) ELSE LegacyPlaceholder(i - 1)]

\* what the detector does with one frame: no person, persons (boxes are
\* drawn), or an exception, which apply_ai_detection catches
DetectionOutcomes == {"none", "boxes", "raises"}

\* HumanDetector.draw_detections: an annotated copy of the frame
draw_detections(f) == [f EXCEPT !.drawn = TRUE]

\* apply_ai_detection: placeholders are skipped, every frame is appended to
\* processed_frames in the order of `frames`
apply_ai_detection(frames, detector, outcomes) ==
  IF ~detector THEN frames
  ELSE [i \in 1 .. Len(frames) |->
          IF frames[i].kind = "placeholder" THEN frames[i]
          ELSE IF outcomes[i] = "boxes" THEN draw_detections(frames[i])
          ELSE frames[i]]

RECURSIVE SeqMax(_)
SeqMax(q) ==
  IF Len(q) = 1 THEN q[1]
  ELSE LET m == SeqMax(Tail(q)) IN IF q[1] > m THEN q[1] ELSE m

RECURSIVE SeqMin(_)
SeqMin(q) ==
  IF Len(q) = 1 THEN q[1]
  ELSE LET m == SeqMin(Tail(q)) IN IF q[1] < m THEN q[1] ELSE m

IsValidTimestamp(t) == t > 0

\* the skew over all timestamps, the 0 of a placeholder among them
check_synchronization_all(timestamps) ==
  IF Len(timestamps) > 1 THEN SeqMax(timestamps) - SeqMin(timestamps) ELSE 0

\* check_synchronization: the skew of the timestamps above 0, 0 when there
\* are fewer than two of them
check_synchronization(timestamps) ==
  IF Len(timestamps) > 1
    THEN LET valid_timestamps == SelectSeq(timestamps, IsValidTimestamp)
         IN IF Len(valid_timestamps) > 1
              THEN SeqMax(valid_timestamps) - SeqMin(valid_timestamps)
              ELSE 0
    ELSE 0

\* camera.py lines 124-125: min() of an empty list raises ValueError
LegacySyncRaises(timestamps) ==
  Len(timestamps) > 1 /\ SelectSeq(timestamps, IsValidTimestamp) = <<>>

\* camera.py line 125: max(timestamps) - min([t for t in timestamps if t > 0])
LegacySkew(timestamps) ==
  IF Len(timestamps) > 1
    THEN SeqMax(timestamps) - SeqMin(SelectSeq(timestamps, IsValidTimestamp))
    ELSE 0

\* line 317: frames, timestamps = self.collect_frames(camera_threads)
CollectFrames ==
  /\ cyLoop = "display_manager"
  /\ cyPc = "begin"
  /\ cyFrames' = collect_frames(cySlots)
  /\ cyTimestamps' = collect_timestamps(cySlots)
  /\ cyPc' = IF Len(cySlots) = 0 THEN "pacing" ELSE "collected"
  /\ UNCHANGED <<cyLoop, cySlots, cySkew, cyOut>>
  /\ UNCHANGED notCycle

\* line 321: frames = self.apply_ai_detection(frames, camera_threads)
ApplyAiDetection ==
  /\ cyLoop = "display_manager"
  /\ cyPc = "collected"
  /\ \E detector \in BOOLEAN :
       \E outcomes \in [1 .. Len(cyFrames) -> DetectionOutcomes] :
         cyFrames' = apply_ai_detection(cyFrames, detector, outcomes)
  /\ cyPc' = "annotated"
  /\ UNCHANGED <<cyLoop, cySlots, cyTimestamps, cySkew, cyOut>>
  /\ UNCHANGED notCycle

\* line 324: self.check_synchronization(timestamps)
CheckSynchronization ==
  /\ cyLoop = "display_manager"
  /\ cyPc = "annotated"
  /\ cySkew' = check_synchronization(cyTimestamps)
  /\ cyPc' = "synced"
  /\ UNCHANGED <<cyLoop, cySlots, cyFrames, cyTimestamps, cyOut>>
  /\ UNCHANGED notCycle

\* lines 327-333: combine_frames, add_overlay_info (empty) and display_frame
CombineAndDisplay ==
  /\ cyLoop = "display_manager"
  /\ cyPc = "synced"
  /\ cyOut' = combine_frames(cyFrames)
  /\ cyPc' = IF cyOut'.res = "raise" THEN "raised" ELSE "pacing"
  /\ UNCHANGED <<cyLoop, cySlots, cyFrames, cyTimestamps, cySkew>>
  /\ UNCHANGED notCycle

\* camera.py lines 104-119
LegacyCollect ==
  /\ cyLoop = "camera_py"
  /\ cyPc = "begin"
  /\ cyFrames' = LegacyFrames(cySlots)
  /\ cyTimestamps' = collect_timestamps(cySlots)
  /\ cyPc' = IF Len(cySlots) = 0 THEN "pacing" ELSE "collected"
  /\ UNCHANGED <<cyLoop, cySlots, cySkew, cyOut>>
  /\ UNCHANGED notCycle

\* camera.py lines 124-127; the try statement of line 101 has no handler
\* for ValueError
LegacySyncCheck ==
  /\ cyLoop = "camera_py"
  /\ cyPc = "collected"
  /\ IF LegacySyncRaises(cyTimestamps)
       THEN cyPc' = "raised" /\ cySkew' = cySkew
       ELSE cyPc' = "synced" /\ cySkew' = LegacySkew(cyTimestamps)
  /\ UNCHANGED <<cyLoop, cySlots, cyFrames, cyTimestamps, cyOut>>
  /\ UNCHANGED notCycle

\* camera.py lines 130-136: np.hstack(frames), putText, imshow
LegacyCombine ==
  /\ cyLoop = "camera_py"
  /\ cyPc = "synced"
  /\ cyOut' = HStack(Images(cyFrames))
  /\ cyPc' = IF cyOut'.res = "raise" THEN "raised" ELSE "pacing"
  /\ UNCHANGED <<cyLoop, cySlots, cyFrames, cyTimestamps, cySkew>>
  /\ UNCHANGED notCycle

\* lines 336-342 / camera.py lines 139-144: the delay and cv2.waitKey
Pace ==
  /\ cyPc = "pacing"
  /\ cyPc' = "done"
  /\ UNCHANGED <<cyLoop, cySlots, cyFrames, cyTimestamps, cySkew, cyOut>>
  /\ UNCHANGED notCycle

CycleInit ==
  /\ CamInit
  /\ HandlesIdle
  /\ ConnectIdle
  /\ DetectorIdle
  /\ FeaturesIdle
  /\ ShutdownIdle
  /\ ConfigIdle
  /\ ReconnectIdle
  /\ DetectIdle
  /\ AlertIdle
  /\ LayoutIdle
  /\ PaceIdle
  /\ cyLoop \in Loops
  /\ cySlots \in UNION {[1 .. n -> SlotTimes] : n \in 0 .. MaxSources}
  /\ cyPc = "begin"
  /\ cyFrames = <<>>
  /\ cyTimestamps = <<>>
  /\ cySkew = 0
  /\ cyOut = Pending

CycleNext ==
  \/ CollectFrames
  \/ ApplyAiDetection
  \/ CheckSynchronization
  \/ CombineAndDisplay
  \/ LegacyCollect
  \/ LegacySyncCheck
  \/ LegacyCombine
  \/ Pace

\* one presentation cycle for every snapshot of the slots of the bounds
SpecCycle == CycleInit /\ [][CycleNext]_vars

(***************************************************************************)
(* DisplayManager.apply_ai_detection, frame by frame.  The detector is a   *)
(* black box: for a frame it returns its detections in some order, or the  *)
(* try block of lines 167-184 raises: in detect_humans, in                 *)
(* _play_alert_sound or in draw_detections.  A detection is named by its   *)
(* rank in the detector's result.  The settings are those of src/config.py *)
(* (detection on all cameras, boxes drawn); the alert is switched on, for  *)
(* the camera of sound_alert_camera.                                       *)
(***************************************************************************)
detection_on_all_cameras == TRUE
draw_bounding_boxes == TRUE
sound_alert == TRUE

\* the result of detect_humans with n detections
Results(n) == [k \in 1 .. n |-> k]

\* how many detections the detector may return: none, one, and as many as
\* the cap, give or take
ResultCounts ==
  {0, 1} \cup ((max_detections_per_frame - 1) ..
              (max_detections_per_frame + MaxExtra))

\* where the try block raises, if it does
FailPoints == {"none", "detect", "alert", "draw"}

\* every frame taken for a picture
CornerIsZeroNever(f, dark) == FALSE

\* line 163: np.sum(frame[0:50, 0:50]) == 0.  A placeholder is black but for
\* its text, whose left end is at placeholder_text_pos[0] =
\* frame_width // 2 - 100: the corner is black when the text begins to the
\* right of it.  A picture has a black corner when the scene has.
CornerIsZero(f, dark) ==
  IF f.kind = "placeholder"
    THEN (f.w \div 2) - placeholder_text_left >= corner_size
    ELSE dark

\* the detections when nothing is cut off
LimitDetectionsKeepsAll(detections) == detections

\* lines 172-174
LimitDetections(detections) ==
  IF Len(detections) > max_detections_per_frame
    THEN SubSeq(detections, 1, max_detections_per_frame)
    ELSE detections

\* a frame that is lost with the exception
ProcessedAfterErrorDrops(processed_frames, f) == processed_frames

\* lines 186-189: the except prints, and line 189 appends the frame that
\* the try block was given
ProcessedAfterError(processed_frames, f) == Append(processed_frames, f)

\* lines 150-151: no detector, or detection disabled
ApplyDisabled ==
  /\ dtPc = "loop"
  /\ ~dtDetector
  /\ dtProcessed' = dtFrames
  /\ dtPc' = "returned"
  /\ UNCHANGED <<dtDetector, dtFrames, dtDark, dtI, dtLast, dtInvoked,
                 dtAlerted, dtRaised>>
  /\ UNCHANGED notDetect

\* lines 155-165: a frame with a black corner is appended as it is
SkipPlaceholder ==
  /\ dtPc = "loop"
  /\ dtDetector
  /\ dtI < Len(dtFrames)
  /\ detection_on_all_cameras
  /\ CornerIsZero(dtFrames[dtI + 1], (dtI + 1) \in dtDark)
  /\ dtI' = dtI + 1
  /\ dtProcessed' = Append(dtProcessed, dtFrames[dtI + 1])
  /\ dtLast' = [NotHandled EXCEPT !.i = dtI + 1]
  /\ UNCHANGED <<dtDetector, dtFrames, dtDark, dtPc, dtInvoked, dtAlerted,
                 dtRaised>>
  /\ UNCHANGED notDetect

\* lines 155-189 for a frame that is given to the detector
DetectFrame ==
  /\ dtPc = "loop"
  /\ dtDetector
  /\ dtI < Len(dtFrames)
  /\ detection_on_all_cameras
  /\ LET i == dtI + 1
         f == dtFrames[i]
         camera_id == f.src
     IN /\ ~CornerIsZero(f, i \in dtDark)
        /\ dtI' = i
        /\ dtInvoked' = dtInvoked \cup {i}
        /\ \E n \in ResultCounts, fail \in FailPoints :
             LET found == fail # "detect"
                 results == IF found THEN Results(n) ELSE <<>>
                 detections == LimitDetections(results)
                 alerts == /\ found
                           /\ detections # <<>>
                           /\ sound_alert
                           /\ camera_id = sound_alert_camera
                 alert_raises == alerts /\ fail = "alert"
                 draws == /\ found
                          /\ ~alert_raises
                          /\ draw_bounding_boxes
                          /\ detections # <<>>
                 draw_raises == draws /\ fail = "draw"
                 raised == ~found \/ alert_raises \/ draw_raises
             IN /\ dtAlerted' = IF alerts THEN dtAlerted \cup {i}
                                          ELSE dtAlerted
                /\ dtRaised' = IF raised THEN dtRaised \cup {i}
                                         ELSE dtRaised
                /\ dtProcessed' =
                     IF raised THEN ProcessedAfterError(dtProcessed, f)
                     ELSE IF draws
                       THEN Append(dtProcessed, draw_detections(f))
                       ELSE Append(dtProcessed, f)
                /\ dtLast' =
                     [i |-> i, invoked |-> TRUE, results |-> results,
                      seen |-> IF found THEN detections ELSE <<>>,
                      boxes |-> IF draws /\ ~draw_raises THEN detections
                                                         ELSE <<>>]
  /\ UNCHANGED <<dtDetector, dtFrames, dtDark, dtPc>>
  /\ UNCHANGED notDetect

\* line 191: return processed_frames
ApplyReturns ==
  /\ dtPc = "loop"
  /\ dtDetector
  /\ dtI = Len(dtFrames)
  /\ dtPc' = "returned"
  /\ UNCHANGED <<dtDetector, dtFrames, dtDark, dtI, dtProcessed, dtLast,
                 dtInvoked, dtAlerted, dtRaised>>
  /\ UNCHANGED notDetect

\* process_frame_cycle line 321: the frames are those of collect_frames,
\* at least one (line 319)
DetectInit ==
  /\ CamInit
  /\ HandlesIdle
  /\ ConnectIdle
  /\ DetectorIdle
  /\ FeaturesIdle
  /\ ShutdownIdle
  /\ ConfigIdle
  /\ ReconnectIdle
  /\ AlertIdle
  /\ LayoutIdle
  /\ CycleIdle
  /\ PaceIdle
  /\ dtDetector \in BOOLEAN
  /\ \E n \in 1 .. MaxDetFrames :
       \E slots \in [1 .. n -> {0, 1}] : dtFrames = collect_frames(slots)
  /\ dtDark \in SUBSET {i \in DOMAIN dtFrames : dtFrames[i].kind = "sample"}
  /\ dtPc = "loop"
  /\ dtI = 0
  /\ dtProcessed = <<>>
  /\ dtLast = NotHandled
  /\ dtInvoked = {}
  /\ dtAlerted = {}
  /\ dtRaised = {}

DetectNext ==
  \/ ApplyDisabled
  \/ SkipPlaceholder
  \/ DetectFrame
  \/ ApplyReturns

\* apply_ai_detection for every frame list, detector result and failure of
\* the bounds
SpecDetect == DetectInit /\ [][DetectNext]_vars

(***************************************************************************)
(* The timing of one presentation cycle: the Governor.  Time is counted in *)
(* ticks, TicksPerMs to the millisecond; time.time() is the wall clock,    *)
(* which an adjustment may set back.                                       *)
(***************************************************************************)
\* int(x) truncates towards zero; num / den is x
IntTrunc(num, den) ==
  IF num >= 0 THEN num \div den ELSE 0 - ((0 - num) \div den)

IntRound(num, den) == IntTrunc(2 * num + den, 2 * den)

Max2(a, b) == IF a >= b THEN a ELSE b

\* line 24: self.target_frame_time = 1.0 / target_fps, in ticks
target_frame_time == (1000 * TicksPerMs) \div target_fps

\* camera.py line 140
legacy_target_frame_time == (1000 * TicksPerMs) \div legacy_target_fps

\* calculate_delay without the floor
calculate_delay_unfloored(start_time, now) ==
  IntTrunc(target_frame_time - (now - start_time), TicksPerMs)

\* calculate_delay with the remaining time rounded to the nearest millisecond
calculate_delay_rounded(start_time, now) ==
  Max2(min_delay, IntRound(target_frame_time - (now - start_time), TicksPerMs))

\* calculate_delay, lines 300-302; now is the reading of time.time()
calculate_delay(start_time, now) ==
  LET elapsed == now - start_time
  IN Max2(min_delay, IntTrunc(target_frame_time - elapsed, TicksPerMs))

\* camera.py lines 139-141
LegacyDelay(start_time, now) ==
  LET elapsed == now - start_time
  IN Max2(legacy_min_delay,
          IntTrunc(legacy_target_frame_time - elapsed, TicksPerMs))

\* time frame collection takes, in ticks
CollectDurations == {0, 1, 7}

\* time annotation, synchronization check, compositing and display take
WorkDurations == (0 - MaxBackMs * TicksPerMs) .. (MaxWorkMs * TicksPerMs)

\* line 314 / camera.py line 103: start_time = time.time()
PaceBegin ==
  /\ gvPc = "begin"
  /\ gvStart' = gvNow
  /\ gvSpent' = 0
  /\ gvPc' = "collect"
  /\ UNCHANGED <<gvLoop, gvNow, gvDelay>>
  /\ UNCHANGED notPace

\* line 317 / camera.py lines 104-119: frame collection takes its time
PaceCollect ==
  /\ gvPc = "collect"
  /\ \E d \in CollectDurations :
       /\ gvNow' = gvNow + d
       /\ gvSpent' = gvSpent + d
  /\ gvPc' = "work"
  /\ UNCHANGED <<gvLoop, gvStart, gvDelay>>
  /\ UNCHANGED notPace

\* lines 319-333 / camera.py lines 122-136: annotation, synchronization
\* check, compositing and display take their time
PaceWork ==
  /\ gvPc = "work"
  /\ \E d \in WorkDurations :
       /\ gvNow' = gvNow + d
       /\ gvSpent' = gvSpent + d
  /\ gvPc' = "delay"
  /\ UNCHANGED <<gvLoop, gvStart, gvDelay>>
  /\ UNCHANGED notPace

\* line 336: delay = self.calculate_delay(start_time)
CalculateDelay ==
  /\ gvLoop = "display_manager"
  /\ gvPc = "delay"
  /\ gvDelay' = calculate_delay(gvStart, gvNow)
  /\ gvPc' = "wait"
  /\ UNCHANGED <<gvLoop, gvNow, gvStart, gvSpent>>
  /\ UNCHANGED notPace

\* camera.py lines 139-141
LegacyCalculateDelay ==
  /\ gvLoop = "camera_py"
  /\ gvPc = "delay"
  /\ gvDelay' = LegacyDelay(gvStart, gvNow)
  /\ gvPc' = "wait"
  /\ UNCHANGED <<gvLoop, gvNow, gvStart, gvSpent>>
  /\ UNCHANGED notPace

PaceInit ==
  /\ CamInit
  /\ HandlesIdle
  /\ ConnectIdle
  /\ DetectorIdle
  /\ FeaturesIdle
  /\ ShutdownIdle
  /\ ConfigIdle
  /\ ReconnectIdle
  /\ DetectIdle
  /\ AlertIdle
  /\ LayoutIdle
  /\ CycleIdle
  /\ gvLoop \in Loops
  /\ gvPc = "begin"
  /\ gvNow = 0
  /\ gvStart = 0
  /\ gvSpent = 0
  /\ gvDelay = 0

PaceNext ==
  \/ PaceBegin
  \/ PaceCollect
  \/ PaceWork
  \/ CalculateDelay
  \/ LegacyCalculateDelay

\* the timing of one cycle, for every duration of the bounds
SpecPacing == PaceInit /\ [][PaceNext]_vars

(***************************************************************************)
(* Reconnection delays.  Two workers reconnect a camera:                   *)
(*   - CameraThread._capture_loop, lines 81-94;                            *)
(*   - process_camera in main.py, which calls connect_camera whenever it   *)
(*     has no handle (src/utils/connect_camera.py is the same function).   *)
(* Each sleep between attempts is recorded with its length in seconds, the *)
(* number of attempts that have failed in a row when it begins, and        *)
(* whether it is the extended sleep of an exhausted budget.                *)
(***************************************************************************)
ReconnectWorkers == {"camera_thread", "main_py"}

\* connect_camera when its delay does not grow
ConnectDelayFixed(attempt) == base_delay

\* connect_camera without the cap of max_delay
ConnectDelayUncapped(attempt) == base_delay * (2 ^ (attempt - 1))

\* connect_camera, main.py line 55:
\* delay = min(base_delay * (2 ** (attempt - 1)), max_delay)
ConnectDelay(attempt) ==
  LET d == base_delay * (2 ^ (attempt - 1))
  IN IF d < max_delay THEN d ELSE max_delay

Slept(delay, streak, extended) ==
  [delay |-> delay, streak |-> streak, extended |-> extended]

\* a budget that lets one more attempt through
BudgetLeftInclusive(attempts) == attempts <= max_reconnect_attempts

\* camera_thread.py line 82: self.reconnect_attempts < self.max_reconnect_attempts
BudgetLeft(attempts) == attempts < max_reconnect_attempts

\* camera_thread.py lines 82-89: open_stream() fails within the budget;
\* the counter goes up and the worker sleeps reconnect_delay
ThreadOpenFails ==
  /\ rcWorker = "camera_thread"
  /\ rcPc = "disconnected"
  /\ BudgetLeft(rcAttempts)
  /\ Len(rcSleeps) < MaxSleeps
  /\ rcAttempts' = rcAttempts + 1
  /\ rcStreak' = rcStreak + 1
  /\ rcSleeps' = Append(rcSleeps, Slept(reconnect_delay, rcStreak + 1, FALSE))
  /\ UNCHANGED <<rcWorker, rcPc>>
  /\ UNCHANGED notReconnect

\* lines 82-85: open_stream() succeeds
ThreadOpenOk ==
  /\ rcWorker = "camera_thread"
  /\ rcPc = "disconnected"
  /\ BudgetLeft(rcAttempts)
  /\ rcAttempts' = 0
  /\ rcStreak' = 0
  /\ rcPc' = "connected"
  /\ UNCHANGED <<rcWorker, rcSleeps>>
  /\ UNCHANGED notReconnect

\* lines 90-94: the budget is used up; the worker sleeps
\* extended_retry_delay and starts to count again
ThreadBackoff ==
  /\ rcWorker = "camera_thread"
  /\ rcPc = "disconnected"
  /\ ~BudgetLeft(rcAttempts)
  /\ Len(rcSleeps) < MaxSleeps
  /\ rcSleeps' = Append(rcSleeps, Slept(extended_retry_delay, rcStreak, TRUE))
  /\ rcAttempts' = 0
  /\ UNCHANGED <<rcWorker, rcPc, rcStreak>>
  /\ UNCHANGED notReconnect

\* lines 96, 105-107: a read fails and the handle is no longer open
ThreadLosesStream ==
  /\ rcWorker = "camera_thread"
  /\ rcPc = "connected"
  /\ rcPc' = "disconnected"
  /\ UNCHANGED <<rcWorker, rcAttempts, rcStreak, rcSleeps>>
  /\ UNCHANGED notReconnect

\* connect_camera, main.py lines 44-57: an attempt fails (the handle is not
\* open, or VideoCapture raises) and the function sleeps `delay`;
\* max_attempts is None, so the loop has no end
ConnectAttemptFails ==
  /\ rcWorker = "main_py"
  /\ rcPc = "disconnected"
  /\ Len(rcSleeps) < MaxSleeps
  /\ rcAttempts' = rcAttempts + 1
  /\ rcStreak' = rcStreak + 1
  /\ rcSleeps' =
       Append(rcSleeps, Slept(ConnectDelay(rcAttempts + 1), rcStreak + 1, FALSE))
  /\ UNCHANGED <<rcWorker, rcPc>>
  /\ UNCHANGED notReconnect

\* connect_camera, lines 45-50: the attempt succeeds and the handle is
\* returned to process_camera (line 68)
ConnectAttemptOk ==
  /\ rcWorker = "main_py"
  /\ rcPc = "disconnected"
  /\ rcAttempts' = rcAttempts + 1
  /\ rcStreak' = 0
  /\ rcPc' = "connected"
  /\ UNCHANGED <<rcWorker, rcSleeps>>
  /\ UNCHANGED notReconnect

\* process_camera, lines 72-79 and 67-68: a read fails, the handle is
\* released and connect_camera is called again, with attempt = 0
ProcessLosesStream ==
  /\ rcWorker = "main_py"
  /\ rcPc = "connected"
  /\ rcPc' = "disconnected"
  /\ rcAttempts' = 0
  /\ UNCHANGED <<rcWorker, rcStreak, rcSleeps>>
  /\ UNCHANGED notReconnect

\* the worker has just been started and has no open stream
ReconnectInit ==
  /\ CamInit
  /\ HandlesIdle
  /\ ConnectIdle
  /\ DetectorIdle
  /\ FeaturesIdle
  /\ ShutdownIdle
  /\ ConfigIdle
  /\ AlertIdle
  /\ LayoutIdle
  /\ CycleIdle
  /\ PaceIdle
  /\ DetectIdle
  /\ rcWorker \in ReconnectWorkers
  /\ rcPc = "disconnected"
  /\ rcAttempts = 0
  /\ rcStreak = 0
  /\ rcSleeps = <<>>

ReconnectNext ==
  \/ ThreadOpenFails
  \/ ThreadOpenOk
  \/ ThreadBackoff
  \/ ThreadLosesStream
  \/ ConnectAttemptFails
  \/ ConnectAttemptOk
  \/ ProcessLosesStream

\* the reconnection of either worker, for every run of successes and
\* failures of the bound
SpecReconnect == ReconnectInit /\ [][ReconnectNext]_vars

(***************************************************************************)
(* Configuration load: main.py lines 9-14 build the CameraManager from     *)
(* config["cameras"], lines 104-117 start one thread per camera of it.  A  *)
(* descriptor is modelled by its shape:                                    *)
(*   "ok"                    id, name, url and a features mapping whose    *)
(*                           keys are fields of CameraFeatures;            *)
(*   "no_id", "no_name", "no_url", "no_features"   that key is missing;    *)
(*   "unknown_feature"       features has a key CameraFeatures has not;    *)
(*   "features_not_mapping"  features is not a mapping;                    *)
(*   "odd_value"             all keys are right and a value is of another  *)
(*                           type than the field's annotation.             *)
(***************************************************************************)
DescriptorShapes ==
  {"ok", "no_id", "no_name", "no_url", "no_features", "unknown_feature",
   "features_not_mapping", "odd_value"}

\* a loop that takes every descriptor as it comes
ParseOutcomeLenient(d) == "ok"

\* _parse_config, lines 28-35, for one descriptor: camera['features'],
\* camera['id'], camera['name'] and camera['url'] raise KeyError for a
\* missing key, which lines 38-39 turn into ValueError; CameraFeatures(**...)
\* raises TypeError for a key that is no field and for an argument that is
\* no mapping, which no except clause catches; a dataclass does not check
\* the types of its values
ParseOutcome(d) ==
  IF d \in {"no_id", "no_name", "no_url", "no_features"} THEN "ValueError"
  ELSE IF d \in {"unknown_feature", "features_not_mapping"} THEN "TypeError"
  ELSE "ok"

\* _parse_config, one turn of the loop of line 27: the camera is appended
\* to self.cameras, or the exception leaves __init__ and, not being caught
\* in main.py, ends the program at line 14
ParseCamera ==
  /\ cfPc = "parse"
  /\ cfI < Len(cfInput)
  /\ cfI' = cfI + 1
  /\ LET outcome == ParseOutcome(cfInput[cfI + 1])
     IN IF outcome = "ok"
          THEN /\ cfCameras' = Append(cfCameras, cfI + 1)
               /\ UNCHANGED <<cfPc, cfError>>
          ELSE /\ cfPc' = "failed"
               /\ cfError' = outcome
               /\ UNCHANGED cfCameras
  /\ UNCHANGED <<cfInput, cfManager, cfThreads>>
  /\ UNCHANGED notConfig

\* the loop is over: __init__ returns and main.py line 14 binds
\* camera_manager
ManagerConstructed ==
  /\ cfPc = "parse"
  /\ cfI = Len(cfInput)
  /\ cfManager' = "bound"
  /\ cfPc' = "threads"
  /\ UNCHANGED <<cfInput, cfI, cfCameras, cfError, cfThreads>>
  /\ UNCHANGED notConfig

\* main.py lines 106-115: a thread is started for the next camera of
\* camera_manager.get_cameras()
StartThread ==
  /\ cfPc = "threads"
  /\ cfManager = "bound"
  /\ Len(cfThreads) < Len(cfCameras)
  /\ cfThreads' = Append(cfThreads, cfCameras[Len(cfThreads) + 1])
  /\ UNCHANGED <<cfInput, cfPc, cfI, cfCameras, cfError, cfManager>>
  /\ UNCHANGED notConfig

\* main.py lines 117-119: all threads are started
MonitoringStarted ==
  /\ cfPc = "threads"
  /\ Len(cfThreads) = Len(cfCameras)
  /\ cfPc' = "monitoring"
  /\ UNCHANGED <<cfInput, cfI, cfCameras, cfError, cfManager, cfThreads>>
  /\ UNCHANGED notConfig

\* main.py line 14, for every list of up to MaxDescriptors descriptors
ConfigInit ==
  /\ CamInit
  /\ HandlesIdle
  /\ ConnectIdle
  /\ DetectorIdle
  /\ FeaturesIdle
  /\ ShutdownIdle
  /\ AlertIdle
  /\ LayoutIdle
  /\ CycleIdle
  /\ PaceIdle
  /\ DetectIdle
  /\ ReconnectIdle
  /\ cfInput \in UNION {[1 .. n -> DescriptorShapes] : n \in 0 .. MaxDescriptors}
  /\ cfPc = "parse"
  /\ cfI = 0
  /\ cfCameras = <<>>
  /\ cfError = "none"
  /\ cfManager = "unbound"
  /\ cfThreads = <<>>

ConfigNext ==
  \/ ParseCamera
  \/ ManagerConstructed
  \/ StartThread
  \/ MonitoringStarted

SpecConfig == ConfigInit /\ [][ConfigNext]_vars

(***************************************************************************)
(* Alerts.  Two paths dispatch an alert when a frame has detections:       *)
(*   - DisplayManager.apply_ai_detection -> _play_alert_sound, on the      *)
(*     presentation loop, for the camera of sound_alert_camera, with the   *)
(*     sound system initialised;                                           *)
(*   - process_camera -> processDetections in main.py, on the acquisition  *)
(*     thread of the camera.                                               *)
(* The thread that detects handles one frame after the other; the clock    *)
(* runs on whatever the threads do.  Transport work (image save, sound     *)
(* load and play) may take for ever.                                       *)
(***************************************************************************)
AlertPaths == {"display_manager", "main_py"}

\* time.time() when the program starts: far more than a cooldown after 0,
\* the initial value of last_sound_time and last_sent
ProgramStart == alert_cooldown + main_cooldown + 2

\* _play_alert_sound, line 76, when the detection is always let through
SoundSuppressedNever(current_time, last_sound_time, cooldown) == FALSE

\* _play_alert_sound, line 76: the cooldown check
SoundSuppressed(current_time, last_sound_time, cooldown) ==
  current_time - last_sound_time < cooldown

\* process_camera, line 97
MainSends(now, last_sent) == now - last_sent > main_cooldown

\* a suppressed detection that restarts the window
LastAfterSuppressedRestart(last_sound_time, current_time) == current_time

\* _play_alert_sound, lines 76-77: return; last_sound_time is not assigned
LastAfterSuppressed(last_sound_time, current_time) == last_sound_time

\* the wall clock
AlertTick ==
  /\ alPc # "off"
  /\ alNow < ProgramStart + MaxAlertTime
  /\ alNow' = alNow + 1
  /\ UNCHANGED <<alPath, alPc, alLast, alCur, alBusy, alCalls, alSent,
                 alFailed>>
  /\ UNCHANGED notAlert

\* a frame without detections: apply_ai_detection lines 177-180 do not call
\* _play_alert_sound; process_camera line 95 is false
AlertNoDetections ==
  /\ alPc = "frame"
  /\ Len(alCalls) < MaxCalls
  /\ alCalls' = Append(alCalls, [t |-> alNow, has |-> FALSE])
  /\ UNCHANGED <<alPath, alPc, alNow, alLast, alCur, alBusy, alSent,
                 alFailed>>
  /\ UNCHANGED notAlert

\* apply_ai_detection line 180 and _play_alert_sound: a frame with
\* detections; within the cooldown nothing happens, otherwise the sound
\* thread is started and last_sound_time set
PlayAlertSound ==
  /\ alPath = "display_manager"
  /\ alPc = "frame"
  /\ Len(alCalls) < MaxCalls
  /\ alCalls' = Append(alCalls, [t |-> alNow, has |-> TRUE])
  /\ alCur' = alNow
  /\ IF SoundSuppressed(alNow, alLast, alert_cooldown)
       THEN /\ alLast' = LastAfterSuppressed(alLast, alNow)
            /\ UNCHANGED <<alBusy, alSent>>
       ELSE /\ alBusy' = alBusy + 1
            /\ alSent' = Append(alSent, alNow)
            /\ alLast' = alNow
  /\ UNCHANGED <<alPath, alPc, alNow, alFailed>>
  /\ UNCHANGED notAlert

\* a transport that fails: the exception is caught where it is raised
\* (play_sound lines 85-86; processDetections lines 26-27 and 35-36), a
\* message is printed and nothing is tried again
FailedAfter(failed, ok) == IF ok THEN failed ELSE failed + 1

\* play_sound, lines 79-86, on its own thread: load and play return, or
\* one of them raises and the except prints the error
SoundThreadEnds ==
  /\ alPath = "display_manager"
  /\ alBusy > 0
  /\ alBusy' = alBusy - 1
  /\ \E ok \in BOOLEAN : alFailed' = FailedAfter(alFailed, ok)
  /\ UNCHANGED <<alPath, alPc, alNow, alLast, alCur, alCalls, alSent>>
  /\ UNCHANGED notAlert

\* process_camera lines 95-98: a frame with detections; processDetections
\* is called on the acquisition thread itself
MainDetection ==
  /\ alPath = "main_py"
  /\ alPc = "frame"
  /\ Len(alCalls) < MaxCalls
  /\ alCalls' = Append(alCalls, [t |-> alNow, has |-> TRUE])
  /\ alCur' = alNow
  /\ IF MainSends(alNow, alLast)
       THEN /\ alPc' = "processDetections"
            /\ alBusy' = alBusy + 1
            /\ alSent' = Append(alSent, alNow)
       ELSE UNCHANGED <<alPc, alBusy, alSent>>
  /\ UNCHANGED <<alPath, alNow, alLast, alFailed>>
  /\ UNCHANGED notAlert

\* last_sent when it is set only for an alert that got through
LastSentOnlyAfterSuccess(last_sent, now, ok) == IF ok THEN now ELSE last_sent

\* process_camera line 99, reached however the transports went
LastSentAfter(last_sent, now, ok) == now

\* processDetections returns (cv2.imwrite and the pygame calls are done or
\* have raised into their except); line 99: last_sent = now
ProcessDetectionsReturns ==
  /\ alPath = "main_py"
  /\ alPc = "processDetections"
  /\ alBusy' = alBusy - 1
  /\ \E ok \in BOOLEAN :
       /\ alFailed' = FailedAfter(alFailed, ok)
       /\ alLast' = LastSentAfter(alLast, alCur, ok)
  /\ alPc' = "frame"
  /\ UNCHANGED <<alPath, alNow, alCur, alCalls, alSent>>
  /\ UNCHANGED notAlert

AlertInit ==
  /\ CamInit
  /\ HandlesIdle
  /\ ConnectIdle
  /\ DetectorIdle
  /\ FeaturesIdle
  /\ ShutdownIdle
  /\ ConfigIdle
  /\ ReconnectIdle
  /\ DetectIdle
  /\ LayoutIdle
  /\ CycleIdle
  /\ PaceIdle
  /\ alPath \in AlertPaths
  /\ alPc = "frame"
  /\ alNow = ProgramStart
  /\ alLast = 0
  /\ alCur = 0
  /\ alBusy = 0
  /\ alCalls = <<>>
  /\ alSent = <<>>
  /\ alFailed = 0

AlertNext ==
  \/ AlertTick
  \/ AlertNoDetections
  \/ PlayAlertSound
  \/ SoundThreadEnds
  \/ MainDetection
  \/ ProcessDetectionsReturns

\* the alert paths, for every timing of frames and detections of the bounds
SpecAlert == AlertInit /\ [][AlertNext]_vars

(***************************************************************************)
(* The end of camera.py.  The presentation loop is the body of a try       *)
(* statement (lines 101-154): the quit key breaks out of it, a             *)
(* KeyboardInterrupt is caught by the except clause, any other exception   *)
(* of a cycle passes through; in every case the finally clause stops each  *)
(* camera thread in turn and then destroys the windows.  A camera thread   *)
(* is here what stop() deals with: its running flag, its thread, which     *)
(* ends when it sees the flag cleared or dies of an exception of its own,  *)
(* and its capture handle.                                                 *)
(***************************************************************************)
LegacyCameraCount == 3           \* len(URLS)
LegacyCameras == 1 .. LegacyCameraCount

\* the ways out of the while loop of line 102
ExitPaths == {"quit", "interrupt", "exception"}

\* camera.py lines 36-43, start(): the thread exists when the open succeeded
LegacyStarted(ok) ==
  [thread |-> IF ok THEN "alive" ELSE "None",
   running |-> ok,
   cap |-> IF ok THEN "opened" ELSE "closed"]

\* the finally clause is entered: its for loop begins with the first thread
LeaveLoop(path) ==
  /\ sd.pc = "loop"
  /\ sd' = [sd EXCEPT !.pc = "stop_flag", !.exit = path, !.i = 1]
  /\ UNCHANGED notShutdown

\* lines 143-144: the quit key, break
LegacyQuitKey == LeaveLoop("quit")

\* lines 146-147: KeyboardInterrupt in the loop, caught and reported
LegacyInterrupt == LeaveLoop("interrupt")

\* any other exception of a cycle: no except clause takes it
LegacyCycleRaises == LeaveLoop("exception")

\* line 53: the worker finds running false and its loop ends
LegacyWorkerExits(c) ==
  /\ sd.pc # "off"
  /\ sd.thread[c] = "alive"
  /\ ~sd.running[c]
  /\ sd' = [sd EXCEPT !.thread[c] = "ended"]
  /\ UNCHANGED notShutdown

\* an exception in _capture_loop ends the thread while running is true
LegacyWorkerDies(c) ==
  /\ sd.pc # "off"
  /\ sd.thread[c] = "alive"
  /\ sd.running[c]
  /\ sd' = [sd EXCEPT !.thread[c] = "ended"]
  /\ UNCHANGED notShutdown

\* stop(), line 46: self.running = False
LegacyStopFlag ==
  /\ sd.pc = "stop_flag"
  /\ sd' = [sd EXCEPT !.running[sd.i] = FALSE, !.pc = "stop_join"]
  /\ UNCHANGED notShutdown

\* join() without the wait
LegacyJoinNoWait(t) == TRUE

\* stop(), lines 47-48: if self.thread: self.thread.join()
LegacyJoinReturns(t) == t # "alive"

LegacyStopJoin ==
  /\ sd.pc = "stop_join"
  /\ LegacyJoinReturns(sd.thread[sd.i])
  /\ sd' = [sd EXCEPT !.pc = "stop_release"]
  /\ UNCHANGED notShutdown

\* the position after stop() has returned for thread i of n: the for loop
\* of line 151 goes through all of camera_threads, and line 153 follows it
FinallyNext(i, n) == IF i < n THEN "stop_flag" ELSE "destroy"

\* stop(), lines 49-50: if self.cap: self.cap.release(); stop() returns
LegacyStopRelease ==
  /\ sd.pc = "stop_release"
  /\ sd' = [sd EXCEPT !.cap[sd.i] = "released",
                      !.stopped = @ \cup {sd.i},
                      !.pc = FinallyNext(sd.i, LegacyCameraCount),
                      !.i = IF sd.i < LegacyCameraCount THEN sd.i + 1 ELSE sd.i]
  /\ UNCHANGED notShutdown

\* line 153: cv2.destroyAllWindows(); the program ends
DestroyAllWindows ==
  /\ sd.pc = "destroy"
  /\ sd' = [sd EXCEPT !.windows = "destroyed", !.pc = "exited"]
  /\ UNCHANGED notShutdown

\* lines 86-99: every camera thread has been constructed and start() called;
\* each first open succeeded or failed; the loop is running
ShutdownInit ==
  /\ CamInit
  /\ HandlesIdle
  /\ ConnectIdle
  /\ DetectorIdle
  /\ FeaturesIdle
  /\ ConfigIdle
  /\ ReconnectIdle
  /\ DetectIdle
  /\ AlertIdle
  /\ LayoutIdle
  /\ CycleIdle
  /\ PaceIdle
  /\ \E ok \in [LegacyCameras -> BOOLEAN] :
       sd = [pc |-> "loop", exit |-> "none", i |-> 0,
             thread |-> [c \in LegacyCameras |-> LegacyStarted(ok[c]).thread],
             running |-> [c \in LegacyCameras |-> LegacyStarted(ok[c]).running],
             cap |-> [c \in LegacyCameras |-> LegacyStarted(ok[c]).cap],
             stopped |-> {}, windows |-> "open"]

ShutdownNext ==
  \/ LegacyQuitKey
  \/ LegacyInterrupt
  \/ LegacyCycleRaises
  \/ (\E c \in LegacyCameras : LegacyWorkerExits(c))
  \/ (\E c \in LegacyCameras : LegacyWorkerDies(c))
  \/ LegacyStopFlag
  \/ LegacyStopJoin
  \/ LegacyStopRelease
  \/ DestroyAllWindows

\* the way out of camera.py, for every set of cameras that started
SpecShutdown == ShutdownInit /\ [][ShutdownNext]_vars

(***************************************************************************)
(* The feature flags of a camera in main.py.  process_camera reads frames  *)
(* of one camera; with human_detection it asks the model about every       *)
(* frame, and a frame with boxes that is out of the five seconds after the *)
(* last dispatch goes to processDetections, which looks at save_images and *)
(* then at sound_alert.  ft counts what was called:                        *)
(*   evaluated  calls of model.predict                                     *)
(*   dispatched calls of processDetections                                 *)
(*   imwrite    calls of cv2.imwrite                                       *)
(*   play       calls of pygame.mixer.music.play (or of the init or load   *)
(*              before it, when they raise)                                *)
(*   message    calls of send_telegram_message                             *)
(***************************************************************************)
MaxFeatureFrames == 3

\* CameraFeatures, the four flags that process_camera and processDetections
\* could look at
FeatureSets ==
  [human_detection : BOOLEAN, save_images : BOOLEAN, send_message : BOOLEAN,
   sound_alert : BOOLEAN]

PredictOutcomes == {"no_boxes", "boxes", "raises"}

\* time.time() moves on between two statements
FeatureTick ==
  /\ ft.pc \in {"read", "predict"}
  /\ ft.now < ProgramStart + MaxAlertTime
  /\ ft' = [ft EXCEPT !.now = @ + 1]
  /\ UNCHANGED notFeatures

\* process_camera, lines 72-87: a frame is read; line 87 sends it to the
\* model only with human_detection
FeatureFrame ==
  /\ ft.pc = "read"
  /\ ft.frames < MaxFeatureFrames
  /\ ft' = [ft EXCEPT !.frames = @ + 1,
                      !.pc = IF ft.features.human_detection
                               THEN "predict" ELSE "read"]
  /\ UNCHANGED notFeatures

\* process_camera, lines 88-98: model.predict returns boxes or none, or
\* raises into the except of line 100; with boxes, line 96 reads the clock
\* and line 97 decides
FeaturePredict ==
  /\ ft.pc = "predict"
  /\ \E outcome \in PredictOutcomes :
       LET sends == outcome = "boxes" /\ MainSends(ft.now, ft.last_sent)
       IN  ft' = [ft EXCEPT
                    !.evaluated = @ + 1,
                    !.cur = IF outcome = "boxes" THEN ft.now ELSE @,
                    !.pc = IF sends THEN "save_images" ELSE "read",
                    !.dispatched = IF sends THEN @ + 1 ELSE @]
  /\ UNCHANGED notFeatures

\* processDetections, lines 22-27: cv2.imwrite is called with save_images;
\* whether it writes, returns False or raises into the except, line 29 is
\* next
FeatureSaveImages ==
  /\ ft.pc = "save_images"
  /\ ft' = [ft EXCEPT !.imwrite = IF ft.features.save_images THEN @ + 1 ELSE @,
                      !.pc = "sound_alert"]
  /\ UNCHANGED notFeatures

\* processDetections, lines 29-36: the sound is played with sound_alert;
\* an exception of pygame is caught; the function ends here
FeatureSoundAlert ==
  /\ ft.pc = "sound_alert"
  /\ ft' = [ft EXCEPT !.play = IF ft.features.sound_alert THEN @ + 1 ELSE @,
                      !.pc = "return"]
  /\ UNCHANGED notFeatures

\* process_camera, line 99
FeatureReturn ==
  /\ ft.pc = "return"
  /\ ft' = [ft EXCEPT !.last_sent = ft.cur, !.pc = "read"]
  /\ UNCHANGED notFeatures

FeaturesInit ==
  /\ CamInit
  /\ HandlesIdle
  /\ ConnectIdle
  /\ DetectorIdle
  /\ ShutdownIdle
  /\ ConfigIdle
  /\ ReconnectIdle
  /\ DetectIdle
  /\ LayoutIdle
  /\ CycleIdle
  /\ PaceIdle
  /\ AlertIdle
  /\ \E f \in FeatureSets :
       ft = [FtOff EXCEPT !.pc = "read", !.features = f, !.now = ProgramStart]

FeaturesNext ==
  \/ FeatureTick
  \/ FeatureFrame
  \/ FeaturePredict
  \/ FeatureSaveImages
  \/ FeatureSoundAlert
  \/ FeatureReturn

\* one camera of main.py, for every feature set and every outcome of the
\* model on the frames of the bound
SpecFeatures == FeaturesInit /\ [][FeaturesNext]_vars

(***************************************************************************)
(* HumanDetector.detect_humans, call by call.  The model's output for a    *)
(* frame is a list of boxes, each with its position in the list, its class *)
(* and its confidence in hundredths; the inference time is in              *)
(* milliseconds, and the rolling average is kept in whole milliseconds     *)
(* (the code keeps a float).                                               *)
(***************************************************************************)
MaxInferences == 2   \* calls of detect_humans that are followed
MaxBoxes == 2        \* most boxes the model puts out for a frame

human_class_id == 0            \* COCO: person
confidence_threshold == 50     \* AI_DETECTION_SETTINGS["confidence_threshold"]

BoxClasses == {human_class_id, human_class_id + 1}
Confidences ==
  {confidence_threshold - 1, confidence_threshold, confidence_threshold + 1}
InferenceTimes == {10, 31}

\* the boxes the model may put out for a frame, in its order
ModelOutputs ==
  UNION {[1 .. n -> [cls : BoxClasses, conf : Confidences]] : n \in 0 .. MaxBoxes}

\* a filter on the class alone
KeepsAnyPerson(box) == box.cls = human_class_id

\* detect_humans, line 109
KeepsDetection(box) ==
  box.cls = human_class_id /\ box.conf >= confidence_threshold

\* the model's boxes with their positions
Numbered(boxes) ==
  [i \in 1 .. Len(boxes) |-> [at |-> i, cls |-> boxes[i].cls, conf |-> boxes[i].conf]]

\* detect_humans, lines 97-112: the loop appends the boxes that pass, one
\* after the other
HumanDetections(boxes) == SelectSeq(Numbered(boxes), KeepsDetection)

\* _update_stats, lines 172-181
UpdateStats(stats, detection_count, inference_time) ==
  LET total_frames == stats.total_frames_processed + 1
      current_avg == stats.avg_inference_time
  IN  [total_detections |-> stats.total_detections + detection_count,
       total_frames_processed |-> total_frames,
       last_detection_count |-> detection_count,
       avg_inference_time |->
         (current_avg * (total_frames - 1) + inference_time) \div total_frames]

\* the detection statistics after a call that did not get to line 116
StatsAfterFailure(stats) == stats

\* detect_humans, lines 88-89: the model is not loaded
DetectNotLoaded ==
  /\ hd.pc = "ready"
  /\ hd.calls < MaxInferences
  /\ ~hd.model_loaded
  /\ hd' = [hd EXCEPT !.calls = @ + 1,
                      !.boxes = <<>>,
                      !.outcome = "not_loaded",
                      !.returned = <<>>,
                      !.detection_stats = StatsAfterFailure(@)]
  /\ UNCHANGED notDetector

\* detect_humans, lines 91-118: inference and the loop over the boxes end
\* without an exception; the statistics are brought up to date and the list
\* is returned
DetectReturns ==
  /\ hd.pc = "ready"
  /\ hd.calls < MaxInferences
  /\ hd.model_loaded
  /\ \E boxes \in ModelOutputs, inference_time \in InferenceTimes :
       LET human_detections == HumanDetections(boxes)
       IN  hd' = [hd EXCEPT
                    !.calls = @ + 1,
                    !.boxes = boxes,
                    !.outcome = "returned",
                    !.returned = human_detections,
                    !.detection_stats =
                      UpdateStats(@, Len(human_detections), inference_time)]
  /\ UNCHANGED notDetector

\* detect_humans, lines 93-122: self.model(...) raises, or a statement of
\* the loop raises on one of the boxes the model has put out; the except
\* returns the empty list
DetectRaises ==
  /\ hd.pc = "ready"
  /\ hd.calls < MaxInferences
  /\ hd.model_loaded
  /\ \E boxes \in ModelOutputs :
       hd' = [hd EXCEPT !.calls = @ + 1,
                        !.boxes = boxes,
                        !.outcome = "raised",
                        !.returned = <<>>,
                        !.detection_stats = StatsAfterFailure(@)]
  /\ UNCHANGED notDetector

DetectorInit ==
  /\ CamInit
  /\ HandlesIdle
  /\ ConnectIdle
  /\ FeaturesIdle
  /\ ShutdownIdle
  /\ ConfigIdle
  /\ ReconnectIdle
  /\ DetectIdle
  /\ LayoutIdle
  /\ CycleIdle
  /\ PaceIdle
  /\ AlertIdle
  /\ \E loaded \in BOOLEAN :
       hd = [HdOff EXCEPT !.pc = "ready", !.model_loaded = loaded]

DetectorNext ==
  \/ DetectNotLoaded
  \/ DetectReturns
  \/ DetectRaises

\* a HumanDetector whose model did or did not load, over every output of
\* the model within the bounds
SpecDetector == DetectorInit /\ [][DetectorNext]_vars

(***************************************************************************)
(* connect_camera and the loop of process_camera around it.  The function  *)
(* is followed attempt by attempt, for a caller that gives a limit and for *)
(* process_camera, which gives none.  cn keeps the local `attempt`, the    *)
(* attempts of the call that have failed, what the call has returned, the  *)
(* local `cap` of process_camera, and the state of the handle that the     *)
(* last cap.read() was made on.                                            *)
(***************************************************************************)
MaxTries == 3        \* largest max_attempts, and calls and reads followed
NoLimit == -1        \* max_attempts=None

ConnectCallers == {"limited", "process_camera"}
AttemptOutcomes == {"opened", "not_opened", "raises"}

\* a loop that goes round once more
KeepsTryingOneMore(max_attempts, attempt) ==
  max_attempts = NoLimit \/ attempt <= max_attempts

\* connect_camera, line 44: while max_attempts is None or attempt < max_attempts
KeepsTrying(max_attempts, attempt) ==
  max_attempts = NoLimit \/ attempt < max_attempts

\* connect_camera, lines 44-57: one turn of the loop.  The attempt opens the
\* handle, which is returned (line 50), or it does not, or VideoCapture
\* raises; after a failure the function sleeps and goes back to line 44
ConnectTry ==
  /\ cn.pc = "connect"
  /\ KeepsTrying(cn.max_attempts, cn.attempt)
  /\ cn.attempt <= MaxTries
  /\ \E outcome \in AttemptOutcomes :
       IF outcome = "opened"
         THEN cn' = [cn EXCEPT
                       !.attempt = @ + 1,
                       !.result = "handle",
                       !.cap = IF cn.caller = "process_camera" THEN "opened" ELSE @,
                       !.pc = IF cn.caller = "process_camera" THEN "read" ELSE "returned"]
         ELSE cn' = [cn EXCEPT !.attempt = @ + 1, !.failed = @ + 1]
  /\ UNCHANGED notConnect

\* connect_camera, line 59: the loop has ended; return None.  Back in
\* process_camera, lines 68-70 keep cap = None and go round
ConnectGivesUp ==
  /\ cn.pc = "connect"
  /\ ~KeepsTrying(cn.max_attempts, cn.attempt)
  /\ cn' = [cn EXCEPT !.result = "None",
                      !.pc = IF cn.caller = "process_camera" THEN "top" ELSE "returned"]
  /\ UNCHANGED notConnect

\* process_camera, lines 66-68: without a handle, connect_camera is called,
\* with no max_attempts; with one, line 72 is next
ProcessTop ==
  /\ cn.pc = "top"
  /\ IF cn.cap = "None"
       THEN /\ cn.calls < MaxTries
            /\ cn' = [cn EXCEPT !.pc = "connect", !.calls = @ + 1,
                                !.attempt = 0, !.failed = 0,
                                !.result = "pending"]
       ELSE cn' = [cn EXCEPT !.pc = "read"]
  /\ UNCHANGED notConnect

\* process_camera, lines 72-79: cap.read() on the local cap; a frame, and
\* the loop goes on (the rest of the body leaves cap alone), or no frame:
\* the handle is released and cap is None again
ProcessRead ==
  /\ cn.pc = "read"
  /\ cn.reads < MaxTries
  /\ \E ret \in BOOLEAN :
       cn' = [cn EXCEPT !.reads = @ + 1,
                        !.read_on = cn.cap,
                        !.cap = IF ret THEN @ ELSE "None",
                        !.pc = "top"]
  /\ UNCHANGED notConnect

ConnectInit ==
  /\ CamInit
  /\ HandlesIdle
  /\ DetectorIdle
  /\ FeaturesIdle
  /\ ShutdownIdle
  /\ ConfigIdle
  /\ ReconnectIdle
  /\ DetectIdle
  /\ LayoutIdle
  /\ CycleIdle
  /\ PaceIdle
  /\ AlertIdle
  /\ \/ \E n \in 0 .. MaxTries :
          cn = [CnOff EXCEPT !.pc = "connect", !.caller = "limited",
                             !.max_attempts = n, !.calls = 1]
     \/ cn = [CnOff EXCEPT !.pc = "top", !.caller = "process_camera",
                           !.max_attempts = NoLimit]

ConnectNext ==
  \/ ConnectTry
  \/ ConnectGivesUp
  \/ ProcessTop
  \/ ProcessRead

\* connect_camera with a limit, and process_camera with its calls of
\* connect_camera without one
SpecConnect == ConnectInit /\ [][ConnectNext]_vars

(***************************************************************************)
(* The capture handles of one CameraThread.  Every cv2.VideoCapture that   *)
(* open_stream() creates gets the next number; hs.cap is the number of the *)
(* handle that self.cap refers to (0 for None), hs.opened what isOpened()  *)
(* says of it, and hs.unreleased the handles that were created and never   *)
(* released.  The main thread calls start() and, later, stop(); the worker *)
(* goes round _capture_loop.                                               *)
(***************************************************************************)
MaxHandles == 7      \* handles that open_stream() creates for the camera

\* an open_stream() that leaves the previous handle as it is
KeepPrevious(unreleased, cap_) == unreleased

\* open_stream, lines 44-45, and stop, lines 72-73:
\* if self.cap: self.cap.release()
ReleasePrevious(unreleased, cap_) ==
  IF cap_ # 0 THEN unreleased \ {cap_} ELSE unreleased

\* open_stream, lines 44-50: the previous handle is released, a new one is
\* created and becomes self.cap; it is open or it is not
HandlesOpenStream(h, ok) ==
  [h EXCEPT !.unreleased = ReleasePrevious(h.unreleased, h.cap) \cup {h.created + 1},
            !.cap = h.created + 1,
            !.created = @ + 1,
            !.opened = ok]

\* start, lines 59-65: open_stream() on the caller's thread; the worker is
\* created when the stream is open
HandlesStart ==
  /\ hs.mpc = "start"
  /\ \E ok \in BOOLEAN :
       hs' = [HandlesOpenStream(hs, ok) EXCEPT
                !.mpc = "started",
                !.running = ok,
                !.thread = IF ok THEN "started" ELSE "None",
                !.wpc = IF ok THEN "test" ELSE "none"]
  /\ UNCHANGED notHandles

\* _capture_loop, lines 80-82 and 90: the loop test and the choice of the
\* branch
HandlesLoopTest ==
  /\ hs.wpc = "test"
  /\ hs' = [hs EXCEPT !.wpc =
              IF ~hs.running THEN "ended"
              ELSE IF hs.cap = 0 \/ ~hs.opened
                   THEN IF BudgetLeft(hs.reconnect_attempts)
                          THEN "open" ELSE "backoff"
                   ELSE "read"]
  /\ UNCHANGED notHandles

\* lines 84-89: open_stream() in the loop, the counter, and after a failure
\* the sleep of reconnect_delay
HandlesReopen ==
  /\ hs.wpc = "open"
  /\ hs.created < MaxHandles
  /\ \E ok \in BOOLEAN :
       hs' = [HandlesOpenStream(hs, ok) EXCEPT
                !.reconnect_attempts = AttemptsAfterOpen(@, ok),
                !.wpc = IF ok THEN "read" ELSE "test"]
  /\ UNCHANGED notHandles

\* lines 91-94: the extended sleep; the counter starts again
HandlesBackoff ==
  /\ hs.wpc = "backoff"
  /\ hs' = [hs EXCEPT !.reconnect_attempts = AttemptsAfterBackoff(@),
                      !.wpc = "test"]
  /\ UNCHANGED notHandles

\* lines 96-107: cap.read(); a frame is published, or the read fails and
\* the handle is open or closed afterwards, or cv2.resize raises and the
\* thread ends; self.cap is assigned in none of these
HandlesRead ==
  /\ hs.wpc = "read"
  /\ \E outcome \in {"frame", "fails_open", "fails_closed", "resize_raises"} :
       hs' = [hs EXCEPT !.opened = IF outcome = "fails_closed" THEN FALSE ELSE @,
                        !.reconnect_attempts = IF outcome = "frame" THEN 0 ELSE @,
                        !.wpc = IF outcome = "resize_raises" THEN "ended"
                                 ELSE "test"]
  /\ UNCHANGED notHandles

\* stop, line 69
HandlesStopFlag ==
  /\ hs.mpc = "started"
  /\ hs' = [hs EXCEPT !.running = FALSE, !.mpc = "stop_join"]
  /\ UNCHANGED notHandles

\* stop, lines 70-71: if self.thread: self.thread.join()
HandlesJoinReturns(h) == h.thread = "None" \/ h.wpc = "ended"

HandlesStopJoin ==
  /\ hs.mpc = "stop_join"
  /\ HandlesJoinReturns(hs)
  /\ hs' = [hs EXCEPT !.mpc = "stop_release"]
  /\ UNCHANGED notHandles

\* stop, lines 72-73: if self.cap: self.cap.release(); stop() returns
HandlesStopRelease ==
  /\ hs.mpc = "stop_release"
  /\ hs' = [hs EXCEPT !.unreleased = ReleasePrevious(@, hs.cap),
                      !.opened = FALSE,
                      !.mpc = "stopped"]
  /\ UNCHANGED notHandles

HandlesInit ==
  /\ CamInit
  /\ ConnectIdle
  /\ DetectorIdle
  /\ FeaturesIdle
  /\ ShutdownIdle
  /\ ConfigIdle
  /\ ReconnectIdle
  /\ DetectIdle
  /\ LayoutIdle
  /\ CycleIdle
  /\ PaceIdle
  /\ AlertIdle
  /\ hs = [HsOff EXCEPT !.mpc = "start"]

HandlesNext ==
  \/ HandlesStart
  \/ HandlesLoopTest
  \/ HandlesReopen
  \/ HandlesBackoff
  \/ HandlesRead
  \/ HandlesStopFlag
  \/ HandlesStopJoin
  \/ HandlesStopRelease

\* one CameraThread from start() to the return of stop(), its worker
\* interleaved with the main thread
SpecHandles == HandlesInit /\ [][HandlesNext]_vars

(***************************************************************************)
(* The camera system: the main thread and the workers, interleaved.        *)
(***************************************************************************)
Init ==
  /\ CamInit
  /\ HandlesIdle
  /\ ConnectIdle
  /\ DetectorIdle
  /\ FeaturesIdle
  /\ ShutdownIdle
  /\ ConfigIdle
  /\ ReconnectIdle
  /\ DetectIdle
  /\ AlertIdle
  /\ LayoutIdle
  /\ CycleIdle
  /\ PaceIdle

Next ==
  \/ Main
  \/ (\E c \in Cameras : Worker(c))

Spec == Init /\ [][Next]_vars

\* every thread that can take a step eventually takes one: the blocking
\* calls return and the scheduler starves no thread
FairSpec ==
  /\ Spec
  /\ WF_vars(Main)
  /\ \A c \in Cameras : WF_vars(Worker(c))

\* sources that may stall: a worker may stay for ever in open_stream, in
\* cap.read, in a sleep or in wait for the lock; only the statements of
\* its with block, which do no I/O, are sure to end.  The main thread is
\* scheduled while it is in get_latest_frame.
StallSpec ==
  /\ Spec
  /\ WF_vars(ReaderAcquire \/ ReaderFrame \/ ReaderTimestamp)
  /\ \A c \in Cameras : WF_vars(PubFrame(c) \/ PubTimestamp(c))

\* fair scheduling, and a worker that waits for its lock gets it in the
\* end: the main thread holds the lock for the length of a copy, once in a
\* presentation cycle
RecoverSpec ==
  /\ FairSpec
  /\ \A c \in Cameras : SF_vars(WorkerAcquire(c))

(***************************************************************************)
(* FrameStore: the slot of a camera and what get_latest_frame returns.     *)
(***************************************************************************)
\* the main thread holds the result of get_latest_frame of camera c
Collected(c) ==
  \/ mpc = "display"
  \/ (mpc \in {"r_acquire", "r_frame", "r_ts"} /\ mi > c)

\* the (buffer, timestamp) pair the main thread holds for camera c, the
\* buffer by its content
HeldPair(c) ==
  [serial |-> IF held[c] = NoBuf THEN 0 ELSE heap[c][held[c]].serial,
   ts |-> heldTs[c]]

\* the sample in the slot of camera c
SlotPair(c) ==
  [serial |-> IF frame[c] = NoBuf THEN 0 ELSE heap[c][frame[c]].serial,
   ts |-> timestamp[c]]

\* the step in which get_latest_frame of camera c returns
ReadReturns(c) == mpc = "r_ts" /\ mi = c /\ mpc' # "r_ts"

\* C1 (no torn reads): whatever the interleaving of the worker's publish
\* with get_latest_frame, the pair a read has returned is one published
\* sample in full (or the absent sample None, 0): its buffer and its
\* timestamp never come from two different samples.
C1_NoTornRead ==
  \A c \in Cameras : Collected(c) => HeldPair(c) \in published[c]

\* C1 witness: a read returned the first sample in full although the worker
\* has published the second one since.
C1_Witness ==
  \E c \in Cameras :
    /\ Collected(c)
    /\ HeldPair(c) = [serial |-> 1, ts |-> 1]
    /\ lastPub[c] = [serial |-> 2, ts |-> 2]

\* C2 (latest wins): get_latest_frame returns exactly the sample of the last
\* completed publish, buffer and timestamp, and outside a publish the slot
\* holds that sample and no earlier one.
C2_LatestWins ==
  /\ [][\A c \in Cameras : ReadReturns(c) => HeldPair(c)' = lastPub[c]]_vars
  /\ [](\A c \in Cameras : lock[c] # "worker" => SlotPair(c) = lastPub[c])

\* C2 witness: after two publishes a read has returned the second sample.
C2_Witness ==
  \E c \in Cameras :
    /\ Collected(c)
    /\ lastPub[c].serial = 2
    /\ HeldPair(c) = lastPub[c]

\* C3 (copy on read): the buffer handed out is not the slot's buffer; its
\* content stays what it was when it was handed out, whatever is published
\* later; and what the caller writes into it never shows in the slot.
C3_CopyOnRead ==
  \A c \in Cameras :
    /\ held[c] # NoBuf =>
         /\ held[c] # frame[c]
         /\ heap[c][held[c]].serial = heldSerial[c]
    /\ (frame[c] # NoBuf /\ lock[c] # "worker") =>
         /\ ~heap[c][frame[c]].marked
         /\ heap[c][frame[c]].serial = lastPub[c].serial

\* C3 witness: the caller has drawn into its copy of the first sample and
\* the worker has published the second sample since.
C3_Witness ==
  \E c \in Cameras :
    /\ held[c] # NoBuf
    /\ heap[c][held[c]].marked
    /\ heldSerial[c] = 1
    /\ lastPub[c].serial = 2
    /\ ~heap[c][frame[c]].marked

(***************************************************************************)
(* SourceWorker: the connection state machine of _capture_loop.            *)
(***************************************************************************)
\* start() has been called for camera c
StartCalled(c) == mpc # "start" \/ mi > c

\* C4, as claimed: when a read of the worker fails, the capture handle is
\* released (the source is Disconnected) before the worker goes on, so that
\* its next step is a reconnect attempt.
C4_ReadFailureReleasesHandle ==
  \A c \in Cameras : wpc[c] = "sleep_readfail" => cap[c] = "released"

\* C5, as claimed: a source whose start() has been called has a worker
\* thread, also when its first open failed: the worker exists and retries.
C5_FailedFirstOpenKeepsWorker ==
  \A c \in Cameras :
    StartCalled(c) => (thread[c] = "started" /\ wpc[c] # "idle")

\* the positions of the worker between a successful cap.read() and the end
\* of that iteration
AfterReadOk == {"acquire", "pub_frame", "pub_ts"}

\* C6 (reconnect monotonicity): every failed open attempt of the worker
\* raises reconnect_attempts by exactly one, and reconnect_attempts is 0
\* after a successful read and when its publish is complete.
C6_ReconnectMonotonic ==
  /\ [][\A c \in Cameras :
          (wpc[c] = "open" /\ wpc'[c] = "sleep_reconnect")
            => reconnect_attempts'[c] = reconnect_attempts[c] + 1]_vars
  /\ [][\A c \in Cameras :
          (wpc[c] = "pub_ts" /\ wpc'[c] # "pub_ts")
            => reconnect_attempts'[c] = 0]_vars
  /\ [](\A c \in Cameras :
          wpc[c] \in AfterReadOk => reconnect_attempts[c] = 0)

\* C6 witness: a source that delivered a frame has lost its stream and has
\* failed to reopen it twice in a row.
C6_Witness ==
  \E c \in Cameras :
    /\ lastPub[c].serial >= 1
    /\ reconnect_attempts[c] = 2
    /\ wpc[c] = "sleep_reconnect"

\* C7 (backoff): with reconnect_attempts at max_reconnect_attempts and the
\* source disconnected, the next step of a worker that has not been told to
\* stop is the extended sleep; no open attempt is made with the budget used
\* up; and the worker leaves the extended sleep with reconnect_attempts 0
\* and the source still disconnected.
C7_Backoff ==
  /\ [][\A c \in Cameras :
          (/\ wpc[c] = "loop"
           /\ wpc'[c] # "loop"
           /\ running[c]
           /\ ~IsOpened(c)
           /\ reconnect_attempts[c] = max_reconnect_attempts)
            => wpc'[c] = "backoff"]_vars
  /\ [](\A c \in Cameras :
          wpc[c] = "open" => reconnect_attempts[c] < max_reconnect_attempts)
  /\ [][\A c \in Cameras :
          (wpc[c] = "backoff" /\ wpc'[c] # "backoff")
            => /\ reconnect_attempts'[c] = 0
               /\ wpc'[c] = "loop"
               /\ cap'[c] # "opened"]_vars

\* C7 witness: a worker in the extended sleep with the budget used up.
C7_Witness ==
  \E c \in Cameras :
    /\ wpc[c] = "backoff"
    /\ reconnect_attempts[c] = max_reconnect_attempts
    /\ running[c]

\* C8 (shutdown safety): once stop() has returned for a camera, its worker
\* has ended (or never existed), its handle is released, nobody holds its
\* lock, and its slot never changes again.
C8_ShutdownSafety ==
  /\ [](\A c \in Cameras :
          stopped[c] =>
            /\ Terminated(c)
            /\ cap[c] \in {"None", "released"}
            /\ lock[c] = "free")
  /\ [][\A c \in Cameras :
          stopped[c] =>
            /\ frame'[c] = frame[c]
            /\ timestamp'[c] = timestamp[c]
            /\ heap'[c] = heap[c]]_vars

\* C8 witness: stop() has returned for a camera whose first open failed (no
\* thread), and for a camera that had delivered a frame, lost its stream and
\* was stopped in the middle of reconnecting.
C8_Witness ==
  /\ stopped[0]
  /\ thread[0] = "None"
  /\ stopped[1]
  /\ wpc[1] = "done"
  /\ lastPub[1].serial >= 1
  /\ reconnect_attempts[1] = 3

\* C9 (shutdown liveness): once running is cleared, the worker starts no new
\* iteration and at most two more blocking calls (open, read, sleep), stop()
\* returns for the camera, and stop_all_cameras returns.
C9_ShutdownLiveness ==
  /\ [](\A c \in Cameras : afterStop[c] <= 2)
  /\ [][\A c \in Cameras :
          (wpc[c] = "loop" /\ ~running[c]) => wpc'[c] \in {"loop", "done"}]_vars
  /\ (mpc = "stop_flag") ~> (mpc = "stopped")

\* C9 witness: stop_all_cameras has returned although a worker was in a
\* read and went through two more blocking calls after running was cleared.
C9_Witness ==
  /\ mpc = "stopped"
  /\ \E c \in Cameras : afterStop[c] = 2 /\ wpc[c] = "done"

\* a step of the worker of camera c in its loop
WorkerStep(c) == wpc[c] \notin {"idle", "done", "crashed"} /\ wpc'[c] # wpc[c]

\* C26 (source isolation): a step of the worker of camera i, an open
\* failure, a read failure, a sleep or the backoff among them, leaves the
\* slot of every other camera j, its timestamp, its reconnect_attempts,
\* its capture handle, its lock and the position of its worker as they
\* are.
C26_SourceIsolation ==
  [][\A i \in Cameras : \A j \in Cameras \ {i} :
       WorkerStep(i) =>
         /\ frame'[j] = frame[j]
         /\ heap'[j] = heap[j]
         /\ timestamp'[j] = timestamp[j]
         /\ reconnect_attempts'[j] = reconnect_attempts[j]
         /\ cap'[j] = cap[j]
         /\ lock'[j] = lock[j]
         /\ wpc'[j] = wpc[j]
         /\ published'[j] = published[j]]_vars

\* C26 witness: a camera whose attempts are used up is in its extended
\* sleep and has published nothing, while the worker of the other camera
\* completes the publish of its second frame.
C26_Witness ==
  \E i \in Cameras : \E j \in Cameras \ {i} :
    /\ wpc[i] = "backoff"
    /\ lastPub[i] = Absent
    /\ wpc[j] = "pub_ts"
    /\ lastPub[j].serial = 1
    /\ reconnect_attempts[j] = 0

\* C27, as claimed: when cv2.resize fails for a frame that was read, the
\* frame is not published, the slot keeps its sample and the worker keeps
\* running: it is never ended by the exception.
C27_ResizeFailureSkipsFrame ==
  \A c \in Cameras : wpc[c] # "crashed"

\* the worker is in a call that may block on the network or on the clock:
\* open_stream, cap.read with cv2.resize, time.sleep
WorkerBlocking(c) ==
  wpc[c] \in {"open", "read", "sleep_reconnect", "backoff", "sleep_readfail"}

\* C25 (lock scope): the worker holds the lock of its slot only at the
\* statements of its with block, the copy-in of frame and timestamp; while
\* it is in open_stream, cap.read, cv2.resize or a sleep the lock is free
\* for a get_latest_frame that has come to its with statement; and, however
\* long the sources stall, every get_latest_frame takes the lock and gets
\* to its return.
C25_LockScope ==
  /\ [](\A c \in Cameras :
          lock[c] = "worker" => wpc[c] \in {"pub_frame", "pub_ts"})
  /\ [](\A c \in Cameras :
          (mpc = "r_acquire" /\ mi = c /\ WorkerBlocking(c))
            => lock[c] = "free")
  /\ (mpc = "r_acquire") ~> (mpc = "r_ts")

\* C25 witness: get_latest_frame holds the lock of a camera whose worker
\* is in its extended sleep.
C25_Witness ==
  \E c \in Cameras :
    /\ wpc[c] = "backoff"
    /\ lock[c] = "reader"
    /\ mpc = "r_ts"
    /\ mi = c

(***************************************************************************)
(* Compositor                                                              *)
(***************************************************************************)
\* C10, as claimed: for every list of N >= 2 equal-sized frames (w x h),
\* combine_frames returns a composite of width 2*w and of height h for
\* N = 2 and 2*h for N >= 3.
C10_CompositeSize ==
  (layoutOut # Pending /\ Len(layoutIn) >= 2) =>
    /\ layoutOut.res = "image"
    /\ layoutOut.w = 2 * layoutIn[1].w
    /\ layoutOut.h = (IF Len(layoutIn) = 2 THEN 1 ELSE 2) * layoutIn[1].h

\* the tiles of the second row of a composite: the frames placed below the
\* first row
SecondRowTiles == {t \in layoutOut.tiles : t.y > 0}

\* C11 (centring): for three equal-sized frames the shortfall of the second
\* row (first-row width minus frame width) is split into a left pad of
\* floor(shortfall / 2) columns and a right pad of the remainder, so that the
\* padded row is as wide as the first row and the pads differ by at most one
\* column; for four frames the second row is the two frames and no padding.
C11_SecondRowCentred ==
  (layoutOut # Pending /\ Len(layoutIn) \in {3, 4}) =>
    LET w == layoutIn[1].w
        h == layoutIn[1].h
        first_row_width == 2 * w
        shortfall == first_row_width - w
    IN /\ layoutOut.res = "image"
       /\ layoutOut.w = first_row_width
       /\ \A t \in SecondRowTiles : t.y = h /\ t.w = w /\ t.h = h
       /\ Len(layoutIn) = 3 =>
            /\ Cardinality(SecondRowTiles) = 1
            /\ \A t \in SecondRowTiles :
                 LET left == t.x
                     right == layoutOut.w - (t.x + t.w)
                 IN /\ t.src = 3
                    /\ 2 * left <= shortfall
                    /\ shortfall < 2 * left + 2
                    /\ left + right = shortfall
                    /\ right - left \in {0, 1}
       /\ Len(layoutIn) = 4 =>
            /\ {[src |-> t.src, x |-> t.x] : t \in SecondRowTiles}
                 = {[src |-> 3, x |-> 0], [src |-> 4, x |-> w]}
            /\ layoutOut.w = 2 * w

\* C11 witness: three frames of odd width 3: the third frame lies one column
\* from the left edge and two from the right edge of a composite 6 wide.
C11_Witness ==
  /\ layoutOut # Pending
  /\ Len(layoutIn) = 3
  /\ layoutIn[1].w = 3
  /\ layoutOut.w = 6
  /\ \E t \in layoutOut.tiles : t.src = 3 /\ t.x = 1 /\ t.y = layoutIn[1].h

(***************************************************************************)
(* The presentation loop reading the slots while the workers run.          *)
(*                                                                         *)
(***************************************************************************)
\* collect_frames, lines 127-135: the frame appended for camera c, given
\* what get_latest_frame returned
CollectedFrame(c) ==
  IF held[c] # NoBuf THEN SampleFrame(c) ELSE create_placeholder_frame(c)

\* the step in which get_latest_frame of camera c picks what it returns
PicksFrame(c) == mpc = "r_frame" /\ mi = c

\* C12, as claimed: when get_latest_frame picks its result for a source that
\* has never published or whose capture is not open at that moment (also
\* one that published earlier and lost its stream), the frame collected for
\* the compositor is the placeholder of the configured size, not a sample.
C12_PlaceholderSubstitution ==
  [][\A c \in Cameras :
       (PicksFrame(c) /\ (lastPub[c] = Absent \/ ~IsOpened(c)))
         => CollectedFrame(c)' = create_placeholder_frame(c)]_vars

(***************************************************************************)
(* The presentation cycle                                                  *)
(***************************************************************************)
\* the positions of a cycle at which `frames` and `timestamps` are collected
AfterCollection == {"collected", "annotated", "synced", "pacing", "done"}

\* C13, as claimed: whatever subset of the sources has never published, all
\* of them included, a cycle of either presentation loop raises nothing and
\* goes on to the pacing delay; it collects one frame and one timestamp per
\* source, and a placeholder for every source that never published.
C13_AbsentIsNotAnError ==
  /\ cyPc # "raised"
  /\ cyPc \in AfterCollection =>
       /\ Len(cyFrames) = Len(cySlots)
       /\ Len(cyTimestamps) = Len(cySlots)
       /\ \A i \in 1 .. Len(cySlots) :
            cySlots[i] = 0 => cyFrames[i].kind = "placeholder"

\* the cell of a tile of a composite of frames h high: its row, and its
\* rank among the tiles of its row
TileRow(t, h) == t.y \div h
TileColumn(t, tiles) ==
  Cardinality({u \in tiles : u.y = t.y /\ u.x < t.x})

\* C14, as claimed: in every cycle of DisplayManager the frame of the source
\* at index i is at list index i after collection and after annotation, and
\* the composite holds it in row 0, column i for i < 2 and in row 1, column
\* i - 2 otherwise, whichever sources are present or absent.
C14_FixedOrderAndPosition ==
  cyLoop = "display_manager" =>
    /\ cyPc # "raised"
    /\ cyPc \in AfterCollection =>
         /\ Len(cyFrames) = Len(cySlots)
         /\ \A i \in 1 .. Len(cyFrames) : cyFrames[i].src = i - 1
    /\ (cyPc \in {"pacing", "done"} /\ Len(cySlots) > 0) =>
         /\ cyOut.res = "image"
         /\ \A i \in 1 .. Len(cyFrames) :
              \E t \in cyOut.tiles :
                /\ t.src = i
                /\ TileRow(t, cyFrames[1].h) = (IF i - 1 < 2 THEN 0 ELSE 1)
                /\ TileColumn(t, cyOut.tiles) =
                     (IF i - 1 < 2 THEN i - 1 ELSE i - 1 - 2)

(***************************************************************************)
(* Governor                                                                *)
(***************************************************************************)
\* C15 (pacing floor): the delay either loop hands to cv2.waitKey is never
\* below the floor of 1 ms, whatever the elapsed time of the cycle: longer
\* than the target frame interval, zero or negative.
C15_PacingFloor ==
  gvPc = "wait" =>
    gvDelay >= (IF gvLoop = "display_manager" THEN min_delay
                                              ELSE legacy_min_delay)

\* C15 witness: a cycle that took more than the target frame interval and a
\* millisecond, and got the delay 1.
C15_Witness ==
  /\ gvPc = "wait"
  /\ gvLoop = "display_manager"
  /\ gvSpent > target_frame_time + TicksPerMs
  /\ gvDelay = min_delay

\* C16 (the governor's delay): with elapsed the time from before frame
\* collection to after display, the delay of calculate_delay is the floor
\* when less than floor + 1 ms remain of the target frame interval, and
\* otherwise the remaining time cut to whole milliseconds; so for elapsed
\* >= 0 the delay is not longer than the target frame interval, and for
\* elapsed <= target - floor, elapsed + delay is not longer than the target.
C16_GovernorDelay ==
  (gvPc = "wait" /\ gvLoop = "display_manager") =>
    LET elapsed == gvSpent
        remaining == target_frame_time - elapsed
        floor == min_delay * TicksPerMs
    IN /\ remaining < floor + TicksPerMs => gvDelay = min_delay
       /\ remaining >= floor =>
            /\ gvDelay * TicksPerMs <= remaining
            /\ remaining < (gvDelay + 1) * TicksPerMs
       /\ elapsed >= 0 => gvDelay * TicksPerMs <= target_frame_time
       /\ elapsed <= target_frame_time - floor =>
            elapsed + gvDelay * TicksPerMs <= target_frame_time

\* C16 witness: collection took time, what remains of the target frame
\* interval is not a whole number of milliseconds, and the delay is its
\* whole milliseconds, above the floor.
C16_Witness ==
  /\ gvPc = "wait"
  /\ gvLoop = "display_manager"
  /\ gvNow - gvStart = gvSpent
  /\ gvSpent > 7
  /\ (target_frame_time - gvSpent) - gvDelay * TicksPerMs
       \in 1 .. (TicksPerMs - 1)
  /\ gvDelay > min_delay

(***************************************************************************)
(* AlertDispatcher                                                         *)
(***************************************************************************)
\* the cooldown window W of the path that is followed
Cooldown == IF alPath = "display_manager" THEN alert_cooldown ELSE main_cooldown

HasDetections(call) == call.has

\* the frames with detections so far
Detections == SelectSeq(alCalls, HasDetections)

\* the step in which the detecting thread handles a frame
HandlesFrame == Len(alCalls') = Len(alCalls) + 1

\* the time of the last dispatched alert is less than the cooldown ago
InCooldown == alSent # <<>> /\ alNow - alSent[Len(alSent)] < Cooldown

\* C17, as claimed: on either alert path, two detections of a source less
\* than W apart produce exactly one dispatched alert, and two detections W
\* or more apart, exactly W included, produce two.
C17_AlertCooldown ==
  Len(Detections) = 2 =>
    Len(alSent) = (IF Detections[2].t - Detections[1].t < Cooldown
                     THEN 1 ELSE 2)

\* C18 (cooldown invariant): no two dispatched alerts of a source are less
\* than the cooldown apart; and the window runs from the last dispatched
\* alert: a detection more than the cooldown after it is dispatched, however
\* many detections were suppressed in between.
C18_CooldownInvariant ==
  /\ [](\A i, j \in DOMAIN alSent :
          i < j => alSent[j] - alSent[i] >= Cooldown)
  /\ [][(/\ HandlesFrame
         /\ alCalls'[Len(alCalls')].has
         /\ (alSent = <<>> \/ alNow - alSent[Len(alSent)] > Cooldown))
          => alSent' = Append(alSent, alNow)]_vars

\* C18 witness: detections at three frames in a row on the presentation
\* loop: the first is dispatched, the second suppressed, and the third is
\* dispatched exactly one cooldown after the first.
C18_Witness ==
  /\ alPath = "display_manager"
  /\ Len(Detections) = 3
  /\ Len(alSent) = 2
  /\ alSent[1] = Detections[1].t
  /\ Detections[2].t > alSent[1]
  /\ alSent[2] = alSent[1] + alert_cooldown

\* C19 (no-op): handling a frame without detections, or a frame with
\* detections less than the cooldown after the last dispatched alert,
\* dispatches nothing, starts no transport work and leaves the time of the
\* last alert as it was.
C19_SuppressedIsNoOp ==
  [][(HandlesFrame /\ (~alCalls'[Len(alCalls')].has \/ InCooldown))
       => /\ alSent' = alSent
          /\ alBusy' = alBusy
          /\ alLast' = alLast
          /\ alPc' = alPc]_vars

\* C19 witness: an alert, then a frame without detections, then a detection
\* within the cooldown: one alert has been dispatched, and the time of the
\* last alert is still that of the first.
C19_Witness ==
  /\ Len(alCalls) = 3
  /\ alCalls[1].has
  /\ ~alCalls[2].has
  /\ alCalls[3].has
  /\ alCalls[3].t - alCalls[1].t \in 1 .. (Cooldown - 1)
  /\ alSent = <<alCalls[1].t>>
  /\ alLast = alCalls[1].t

\* C20, as claimed: on either path the thread that detects hands the
\* dispatch off: while transport work (image save, sound) is in progress,
\* that thread is at its next frame, not waiting for the work to end.
C20_AsyncDispatch ==
  alBusy > 0 => alPc = "frame"

\* the step in which a transport fails
TransportFails == alFailed' = alFailed + 1

\* C21 (transport failure): a transport that fails is contained, the
\* thread that detects goes on with its next frame, nothing is dispatched
\* again, and the time of the last alert is that of the alert as if the
\* transport had worked: after a failure a detection within the cooldown of
\* that alert is suppressed.
C21_TransportFailureContained ==
  /\ [][TransportFails =>
          /\ alPc' = "frame"
          /\ alSent' = alSent
          /\ alBusy' = alBusy - 1
          /\ alLast' = alSent[Len(alSent)]]_vars
  /\ [][(/\ alFailed > 0
         /\ HandlesFrame
         /\ alCalls'[Len(alCalls')].has
         /\ InCooldown)
          => alSent' = alSent /\ alBusy' = alBusy]_vars

\* C21 witness: in main.py the transport of the first alert has failed and
\* a detection within the cooldown of that alert has been suppressed.
C21_Witness ==
  /\ alPath = "main_py"
  /\ alFailed = 1
  /\ Len(alSent) = 1
  /\ alLast = alSent[1]
  /\ Len(Detections) = 2
  /\ Detections[2].t - alSent[1] \in 1 .. main_cooldown

(***************************************************************************)
(* DetectionStage                                                          *)
(***************************************************************************)
\* the frames that are placeholders
Placeholders == {i \in DOMAIN dtFrames : dtFrames[i].kind = "placeholder"}

\* C22 (annotation failure isolation): when the try block raises for a
\* frame, that frame is appended as it was given and the loop goes on; the
\* call returns a list as long as its input, with the frames of the same
\* sources in the same order, after every frame has been handled.
C22_AnnotationFailureIsolated ==
  /\ [][(dtI' = dtI + 1 /\ dtI' \in dtRaised') =>
          /\ dtProcessed' = Append(dtProcessed, dtFrames[dtI'])
          /\ dtPc' = "loop"]_vars
  /\ [](dtPc = "returned" =>
          /\ Len(dtProcessed) = Len(dtFrames)
          /\ \A i \in DOMAIN dtFrames :
               /\ dtProcessed[i].src = dtFrames[i].src
               /\ dtProcessed[i].kind = dtFrames[i].kind
               /\ i \in dtRaised => dtProcessed[i] = dtFrames[i]
          /\ dtDetector => dtI = Len(dtFrames))

\* C22 witness: the call has returned; the try block raised for the first
\* frame, which is in the result without boxes, and the detections of the
\* second frame have been drawn.
C22_Witness ==
  /\ dtPc = "returned"
  /\ 1 \in dtRaised
  /\ ~dtProcessed[1].drawn
  /\ Len(dtProcessed) >= 2
  /\ dtProcessed[2].drawn

\* q is the first max_detections_per_frame entries of r, all of r when r
\* has fewer
IsCapOf(q, r) ==
  /\ Len(q) <= max_detections_per_frame
  /\ Len(q) <= Len(r)
  /\ Len(q) = max_detections_per_frame \/ Len(q) = Len(r)
  /\ \A k \in 1 .. Len(q) : q[k] = r[k]

\* C23 (cap): for a frame given to the detector, the detections the alert
\* decision looks at and the detections that are drawn are the first
\* max_detections_per_frame results of the detector in their order, all of
\* them when there are fewer.
C23_MaxDetectionsCap ==
  (dtLast.invoked /\ dtLast.i \notin dtRaised) =>
    /\ IsCapOf(dtLast.seen, dtLast.results)
    /\ dtProcessed[dtLast.i].drawn <=> dtLast.results # <<>>
    /\ dtProcessed[dtLast.i].drawn => IsCapOf(dtLast.boxes, dtLast.results)

\* C23 witness: the detector returned two detections more than the cap for
\* the camera of the alert: the alert was decided on, and the boxes drawn
\* for, the ten first.
C23_Witness ==
  /\ dtLast.invoked
  /\ dtLast.i \in dtAlerted
  /\ dtLast.i \notin dtRaised
  /\ Len(dtLast.results) = max_detections_per_frame + 2
  /\ Len(dtLast.seen) = max_detections_per_frame
  /\ Len(dtLast.boxes) = max_detections_per_frame

\* C24 (placeholders): detect_humans is not called with a placeholder of
\* collect_frames, no alert is raised for one, and the placeholder is in
\* the list that goes to combine_frames as it was made.
C24_PlaceholdersSkipped ==
  /\ dtInvoked \cap Placeholders = {}
  /\ dtAlerted \cap Placeholders = {}
  /\ \A i \in Placeholders :
       i <= Len(dtProcessed) => dtProcessed[i] = dtFrames[i]

\* C24 witness: with the detector on, the call has returned; the camera of
\* the alert was absent, and the detector was called for another camera.
C24_Witness ==
  /\ dtPc = "returned"
  /\ dtDetector
  /\ (sound_alert_camera + 1) \in Placeholders
  /\ dtInvoked # {}
  /\ dtProcessed[sound_alert_camera + 1] =
       create_placeholder_frame(sound_alert_camera)

(***************************************************************************)
(* Skew diagnostic                                                         *)
(***************************************************************************)
\* the cameras whose slot holds a sample at the cycle
RealSamples == {i \in DOMAIN cySlots : cySlots[i] > 0}

\* C30 (skew): what check_synchronization computes in process_frame_cycle is
\* the greatest minus the least timestamp of the real samples, placeholders
\* left out, 0 with fewer than two real samples and never negative; and the
\* step that computes it leaves the list of frames that goes to
\* combine_frames as it is.
C30_SkewInformational ==
  /\ []((cyLoop = "display_manager"
           /\ cyPc \in {"synced", "pacing", "raised", "done"}) =>
          /\ cySkew >= 0
          /\ IF Cardinality(RealSamples) < 2
               THEN cySkew = 0
               ELSE \E i, j \in RealSamples :
                      /\ cySkew = cySlots[i] - cySlots[j]
                      /\ \A k \in RealSamples :
                           cySlots[j] <= cySlots[k] /\ cySlots[k] <= cySlots[i])
  /\ [][(cyLoop = "display_manager" /\ cyPc = "annotated")
          => (cyPc' = "synced" /\ cyFrames' = cyFrames)]_vars
  /\ [][(cyLoop = "display_manager" /\ cyPc = "synced")
          => cyOut' = combine_frames(cyFrames)]_vars

\* C30 witness: a cycle of three cameras, the second absent, the others
\* with samples one tick apart, has been displayed with a skew of 1.
C30_Witness ==
  /\ cyLoop = "display_manager"
  /\ cyPc = "done"
  /\ cySlots = <<1, 0, 2>>
  /\ cySkew = 1
  /\ cyFrames[2].kind = "placeholder"

(***************************************************************************)
(* Reconnection                                                            *)
(***************************************************************************)
\* the sleeps between two failed attempts, and the extended sleeps
RetrySleeps == {k \in DOMAIN rcSleeps : ~rcSleeps[k].extended}
ExtendedSleeps == {k \in DOMAIN rcSleeps : rcSleeps[k].extended}

\* C28, as claimed: for CameraThread and for the worker of main.py alike,
\* the sleeps between consecutive failed attempts all have the same length,
\* whatever the number of the attempt, and the sleeps after an exhausted
\* budget all have one, longer, length.
C28_FixedReconnectDelay ==
  /\ \A k, l \in RetrySleeps : rcSleeps[k].delay = rcSleeps[l].delay
  /\ \A k, l \in ExtendedSleeps : rcSleeps[k].delay = rcSleeps[l].delay
  /\ \A k \in RetrySleeps : \A l \in ExtendedSleeps :
       rcSleeps[k].delay < rcSleeps[l].delay

\* C28, amended: CameraThread sleeps reconnect_delay after every failed
\* attempt and extended_retry_delay when max_reconnect_attempts attempts
\* have failed since the last extended sleep or success.  The worker of
\* main.py has no budget and no extended sleep: connect_camera sleeps
\* base_delay after the first failed attempt of a call and twice the
\* previous sleep after each further one, up to max_delay.
C28_ReconnectDelays ==
  /\ rcWorker = "camera_thread" =>
       \A k \in DOMAIN rcSleeps :
         IF rcSleeps[k].extended
           THEN /\ rcSleeps[k].delay = extended_retry_delay
                /\ rcSleeps[k].streak >= max_reconnect_attempts
                /\ rcSleeps[k].streak % max_reconnect_attempts = 0
                /\ k > 1
                /\ ~rcSleeps[k - 1].extended
           ELSE rcSleeps[k].delay = reconnect_delay
  /\ rcWorker = "main_py" =>
       /\ ExtendedSleeps = {}
       /\ \A k \in DOMAIN rcSleeps :
            IF rcSleeps[k].streak = 1
              THEN rcSleeps[k].delay = base_delay
              ELSE /\ k > 1
                   /\ rcSleeps[k - 1].streak = rcSleeps[k].streak - 1
                   /\ rcSleeps[k].delay =
                        (IF 2 * rcSleeps[k - 1].delay < max_delay
                           THEN 2 * rcSleeps[k - 1].delay ELSE max_delay)

\* C28 witness: connect_camera has failed seven times in a row; its sleeps
\* have doubled from base_delay up to the cap of max_delay.
C28_Witness ==
  /\ rcWorker = "main_py"
  /\ Len(rcSleeps) = 7
  /\ rcSleeps[1].delay = base_delay
  /\ rcSleeps[2].delay = 2 * base_delay
  /\ rcSleeps[5].delay = 16 * base_delay
  /\ rcSleeps[6].delay = max_delay
  /\ rcSleeps[7].delay = max_delay

(***************************************************************************)
(* Configuration                                                           *)
(***************************************************************************)
\* a descriptor that lacks a required field, and one whose feature set is
\* malformed: not a mapping of the fields of CameraFeatures
LacksField(d) == d \in {"no_id", "no_name", "no_url", "no_features"}
MalformedFeatures(d) == d \in {"unknown_feature", "features_not_mapping"}

Rejected == {i \in DOMAIN cfInput :
               LacksField(cfInput[i]) \/ MalformedFeatures(cfInput[i])}

\* C29 (all or nothing): with a descriptor that lacks id, name, url or
\* features, or whose feature set is malformed, anywhere in the list, the
\* construction of the CameraManager never completes: camera_manager is
\* never bound, whatever cameras were parsed before, no thread is started,
\* and start-up ends with the error; without such a descriptor the manager
\* holds every camera of the list, in order.
C29_ConfigAllOrNothing ==
  /\ Rejected # {} =>
       /\ cfManager = "unbound"
       /\ cfThreads = <<>>
       /\ cfPc \in {"parse", "failed"}
       /\ cfPc = "parse" => cfI < Len(cfInput)
       /\ cfPc = "failed" => cfError \in {"ValueError", "TypeError"}
  /\ cfManager = "bound" =>
       /\ Rejected = {}
       /\ cfCameras = [i \in DOMAIN cfInput |-> i]

\* C29 witness: the third descriptor has no url; two cameras had been
\* parsed when the construction failed, and nothing was started.
C29_Witness ==
  /\ Len(cfInput) = 3
  /\ cfInput[3] = "no_url"
  /\ cfPc = "failed"
  /\ cfError = "ValueError"
  /\ cfCameras = <<1, 2>>
  /\ cfManager = "unbound"
  /\ cfThreads = <<>>

(***************************************************************************)
(* Shutdown                                                                *)
(***************************************************************************)
\* C31 (shutdown ordering): whichever way the presentation loop of
\* camera.py is left, by the quit key, an interrupt or an exception of a
\* cycle, the next thing is stop() for the first camera thread; the windows
\* are destroyed only when stop() has returned for every camera thread, one
\* that never started among them: every running flag is cleared, no thread
\* is alive any more and every handle is released.
C31_ShutdownOrdering ==
  /\ [][(sd.exit = "none" /\ sd'.exit # "none")
          => (sd'.exit \in ExitPaths /\ sd'.pc = "stop_flag" /\ sd'.i = 1)]_vars
  /\ []((sd.pc # "off" /\ sd.windows = "destroyed") =>
          /\ sd.stopped = LegacyCameras
          /\ \A c \in LegacyCameras :
               /\ ~sd.running[c]
               /\ sd.thread[c] # "alive"
               /\ sd.cap[c] = "released")
  /\ []((sd.pc # "off" /\ sd.exit # "none" /\ sd.windows # "destroyed") =>
          sd.pc \in {"stop_flag", "stop_join", "stop_release", "destroy"})
  /\ [](\A c \in sd.stopped : sd.thread[c] # "alive")

\* C31 witness: the loop was left by an exception; the first camera never
\* started, the third was running; all have been stopped and the windows
\* are destroyed.
C31_Witness ==
  /\ sd.pc = "exited"
  /\ sd.exit = "exception"
  /\ sd.thread[1] = "None"
  /\ sd.thread[3] = "ended"
  /\ sd.stopped = LegacyCameras
  /\ sd.windows = "destroyed"

(***************************************************************************)
(* Feature flags                                                           *)
(***************************************************************************)
\* C32: an alert that was dispatched does what the camera's features say:
\* the image is saved exactly when save_images is set, a message is sent
\* exactly when send_message is set, the sound is played exactly when
\* sound_alert is set; and with human_detection off no frame is evaluated.
C32_FeaturesDecideActions ==
  /\ ft.pc = "read" =>
       /\ ft.imwrite = (IF ft.features.save_images THEN ft.dispatched ELSE 0)
       /\ ft.message = (IF ft.features.send_message THEN ft.dispatched ELSE 0)
       /\ ft.play = (IF ft.features.sound_alert THEN ft.dispatched ELSE 0)
  /\ (ft.pc # "off" /\ ~ft.features.human_detection) => ft.evaluated = 0

\* what the code does: image and sound follow their flags, no frame is
\* evaluated with human_detection off, and no message is sent whatever
\* send_message says
C32_ActionsOfTheCode ==
  /\ ft.pc = "read" =>
       /\ ft.imwrite = (IF ft.features.save_images THEN ft.dispatched ELSE 0)
       /\ ft.play = (IF ft.features.sound_alert THEN ft.dispatched ELSE 0)
  /\ ft.message = 0
  /\ (ft.pc # "off" /\ ~ft.features.human_detection) =>
       ft.evaluated = 0 /\ ft.dispatched = 0

(***************************************************************************)
(* Backoff                                                                 *)
(***************************************************************************)
\* an open attempt of the worker of camera c that fails
OpenFails(c) == Reconnect(c) /\ cap'[c] # "opened"

\* from some point on no open and no read of camera c fails
EndpointHealthy(c) == <>[][~(OpenFails(c) \/ ReadFail(c))]_vars

\* C33: Backoff is not terminal: when from some point on every open and
\* every read of a camera succeeds, a worker that is in its extended sleep
\* gets back to streaming and publishes a frame read after the sleep, unless
\* the camera is being stopped.
C33_BackoffRecovers ==
  \A c \in Cameras :
    EndpointHealthy(c) =>
      \A n \in 0 .. MaxFrames :
        (wpc[c] = "backoff" /\ nread[c] = n)
          ~> (~running[c] \/ lastPub[c].serial > n)

\* the first half of C33: after the extended sleep the worker is back at the
\* loop test with a fresh budget, and a running worker goes on to a new
\* open attempt
C33_BackoffReturns ==
  [][\A c \in Cameras :
       /\ wpc[c] = "backoff" /\ wpc'[c] # "backoff" =>
            wpc'[c] = "loop" /\ reconnect_attempts'[c] = 0 /\ NeedsReconnect(c)'
       /\ (wpc[c] = "loop" /\ wpc'[c] # "loop" /\ running[c]
             /\ NeedsReconnect(c) /\ reconnect_attempts[c] = 0) =>
            wpc'[c] = "open"]_vars

(***************************************************************************)
(* Ownership of the capture handle                                         *)
(***************************************************************************)
\* the worker thread of camera c exists and has not ended
WorkerAlive(c) == thread[c] # "None" /\ ~Terminated(c)

\* the main thread is at a statement of start() or stop() that works on the
\* handle of camera c: open_stream() of line 59, cap.release() of line 73
MainOnHandle(c) == mi = c /\ mpc \in {"start", "stop_release"}

\* C34 (exclusive ownership of the capture handle): the main thread works on
\* a camera's handle only while the camera has no live worker: start() opens
\* the stream before the thread exists and stop() releases after the join;
\* while the worker lives, every change of the handle is a step of that
\* worker, and without a live worker it is a step of start() or stop().
C34_ExclusiveHandle ==
  /\ [](\A c \in Cameras : MainOnHandle(c) => ~WorkerAlive(c))
  /\ [](\A c \in Cameras :
          (mpc = "start" /\ mi <= c) => thread[c] = "None" /\ wpc[c] = "idle")
  /\ [][\A c \in Cameras :
          cap'[c] # cap[c] =>
            IF WorkerAlive(c)
              THEN /\ WorkerStep(c)
                   /\ wpc[c] \in {"open", "read"}
                   /\ <<mpc, mi>>' = <<mpc, mi>>
              ELSE /\ MainOnHandle(c)
                   /\ <<mpc, mi>>' # <<mpc, mi>>]_vars

\* C34 witness: stop() is about to release the handle of camera 0, whose
\* worker has read a frame, lost the stream and ended, while the worker of
\* camera 1 is in an open_stream() of its own.
C34_Witness ==
  /\ MainOnHandle(0)
  /\ mpc = "stop_release"
  /\ wpc[0] = "done"
  /\ nread[0] >= 1
  /\ cap[0] = "closed"
  /\ WorkerAlive(1)
  /\ wpc[1] = "open"

(***************************************************************************)
(* detect_humans                                                           *)
(***************************************************************************)
\* s is in the order of the model: the positions of its boxes go up
InModelOrder(s) == \A i, j \in 1 .. Len(s) : i < j => s[i].at < s[j].at

\* C35: what detect_humans returns are boxes of the model's output, of the
\* person class and with a confidence of at least the threshold, in the
\* order of the model; and a call with the model not loaded, or one that
\* raises, returns the empty list and leaves the statistics as they were.
C35_DetectHumans ==
  /\ [](\A i \in 1 .. Len(hd.returned) :
          LET d == hd.returned[i]
          IN  /\ d.at \in 1 .. Len(hd.boxes)
              /\ hd.boxes[d.at].cls = d.cls /\ hd.boxes[d.at].conf = d.conf
              /\ d.cls = human_class_id
              /\ d.conf >= confidence_threshold)
  /\ [](InModelOrder(hd.returned))
  /\ [][hd'.outcome \in {"not_loaded", "raised"} =>
          /\ hd'.returned = <<>>
          /\ hd'.detection_stats = hd.detection_stats]_vars

\* C35 witness: a call has returned the second of two boxes (the first, a
\* person, is below the threshold) and counted it, and the next call raises
\* with the statistics of the first still in place.
C35_Witness ==
  /\ hd.outcome = "raised"
  /\ hd.calls = 2
  /\ Len(hd.boxes) = 2
  /\ hd.detection_stats.total_frames_processed = 1
  /\ hd.detection_stats.total_detections = 1
  /\ hd.detection_stats.avg_inference_time = 31

(***************************************************************************)
(* connect_camera                                                          *)
(***************************************************************************)
\* min(2^(k-1), 30)
BackoffSeconds(k) == IF 2 ^ (k - 1) < 30 THEN 2 ^ (k - 1) ELSE 30

\* C36 (exponential backoff of connect_camera): the sleep after the k-th
\* failed attempt in a row of one call is min(2^(k-1), 30) seconds; within
\* a call the sleeps do not get shorter, none is longer than 30 seconds,
\* and the first sleep of every call, the calls after a lost connection
\* among them, is 1 second.
C36_ExponentialBackoff ==
  rcWorker = "main_py" =>
    /\ rcPc = "disconnected" => rcAttempts = rcStreak
    /\ \A k \in DOMAIN rcSleeps :
         /\ rcSleeps[k].streak >= 1
         /\ rcSleeps[k].delay = BackoffSeconds(rcSleeps[k].streak)
         /\ rcSleeps[k].delay <= 30
         /\ rcSleeps[k].streak = 1 => rcSleeps[k].delay = 1
         /\ k = 1 => rcSleeps[k].streak = 1
         /\ k > 1 =>
              \/ rcSleeps[k].streak = 1
              \/ /\ rcSleeps[k].streak = rcSleeps[k - 1].streak + 1
                 /\ rcSleeps[k].delay >= rcSleeps[k - 1].delay

\* C36 witness: a call of connect_camera slept 1, 2 and 4 seconds before it
\* got a handle; the connection was lost, and the next call has slept 1 and
\* 2 seconds so far.
C36_Witness ==
  /\ rcWorker = "main_py"
  /\ rcPc = "disconnected"
  /\ Len(rcSleeps) = 5
  /\ rcSleeps[3].delay = 4
  /\ rcSleeps[4].streak = 1
  /\ rcSleeps[4].delay = 1
  /\ rcSleeps[5].delay = 2
  /\ rcAttempts = 2

\* C37: connect_camera with max_attempts = n makes at most n attempts and
\* returns None only when n attempts have been made and all have failed;
\* without a limit it returns nothing but an opened handle; and every
\* cap.read() of process_camera is made on an opened handle.
C37_ConnectAttempts ==
  /\ [](cn.caller = "limited" =>
          /\ cn.attempt <= cn.max_attempts
          /\ cn.result = "None" =>
               cn.attempt = cn.max_attempts /\ cn.failed = cn.max_attempts
          /\ cn.result = "handle" => cn.failed = cn.attempt - 1)
  /\ [](cn.caller = "process_camera" =>
          /\ cn.result # "None"
          /\ cn.pc = "read" => cn.cap = "opened"
          /\ cn.read_on \in {"none", "opened"}
          /\ cn.cap = "opened" => cn.result = "handle")
  /\ [][cn'.reads # cn.reads => cn.cap = "opened"]_vars

\* C37 witness: connect_camera with max_attempts = 2 has returned None after
\* two attempts, both failed.
C37_Witness ==
  /\ cn.caller = "limited"
  /\ cn.max_attempts = 2
  /\ cn.pc = "returned"
  /\ cn.result = "None"
  /\ cn.attempt = 2
  /\ cn.failed = 2

(***************************************************************************)
(* The retry budget of CameraThread                                        *)
(***************************************************************************)
\* sleeps k < l are extended sleeps that follow one another, and no open
\* has succeeded between them: every sleep in between is a retry sleep of
\* a streak that goes on
ConsecutiveBackoffs(k, l) ==
  /\ k < l
  /\ rcSleeps[k].extended
  /\ rcSleeps[l].extended
  /\ \A j \in (k + 1) .. (l - 1) :
       ~rcSleeps[j].extended /\ rcSleeps[j].streak > rcSleeps[k].streak

\* C38 (retry budget): reconnect_attempts of a CameraThread is at least 0
\* and at most max_reconnect_attempts in every state, and between two
\* extended sleeps that follow one another with no successful open in
\* between, the worker makes exactly max_reconnect_attempts open attempts,
\* each followed by its retry sleep.
C38_RetryBudget ==
  rcWorker = "camera_thread" =>
    /\ rcAttempts \in 0 .. max_reconnect_attempts
    /\ \A k, l \in DOMAIN rcSleeps :
         ConsecutiveBackoffs(k, l) =>
           /\ l - k - 1 = max_reconnect_attempts
           /\ rcSleeps[l].streak = rcSleeps[k].streak + max_reconnect_attempts
           /\ \A j \in (k + 1) .. (l - 1) :
                rcSleeps[j].streak = rcSleeps[k].streak + (j - k)

\* C38 witness: the worker has used up its budget twice in a row: five
\* failed opens, the extended sleep, five more failed opens, and the
\* extended sleep again.
C38_Witness ==
  /\ rcWorker = "camera_thread"
  /\ Len(rcSleeps) = 12
  /\ ConsecutiveBackoffs(6, 12)
  /\ rcSleeps[12].streak = 10
  /\ rcAttempts = 0

(***************************************************************************)
(* Capture handles                                                         *)
(***************************************************************************)
\* C39: a CameraThread has at most one capture handle that was created and
\* not released, and it is the one self.cap refers to: open_stream releases
\* the handle before it creates the next, however often the worker
\* reconnects; and when stop() has returned, no handle is unreleased.
C39_OneHandle ==
  /\ Cardinality(hs.unreleased) <= 1
  /\ hs.unreleased \subseteq {hs.cap}
  /\ hs.mpc = "stopped" => hs.unreleased = {}

\* C39 witness: stop() has returned for a camera whose worker had lost its
\* stream and gone through five more handles; the sixth was the one that
\* stop() released.
C39_Witness ==
  /\ hs.mpc = "stopped"
  /\ hs.created = 6
  /\ hs.cap = 6
  /\ hs.reconnect_attempts = 0
  /\ hs.wpc = "ended"
  /\ hs.unreleased = {}

=============================================================================
